---- MODULE Spec2Model ----
(***************************************************************************)
(* State-machine model of the sotion proxy (src/server.js) and its stores  *)
(* (src/unnamed/part_002, the database module with the asset cache).       *)
(*                                                                         *)
(* Strings the code inspects (URLs, hostnames, paths) are sequences of     *)
(* tokens: "https://www.notion.so/_assets/x.js" is                         *)
(* <<"https://","www",".","notion",".","so","/","_assets","/","x.js">>.    *)
(* startsWith / endsWith / includes are prefix / suffix / contiguous       *)
(* subsequence on the tokens.                                              *)
(*                                                                         *)
(* Every request is a process; an action is the code a handler runs        *)
(* between two awaits (one SQL statement, one upstream fetch).             *)
(***************************************************************************)
EXTENDS Integers, Sequences, FiniteSets, TLC

(***************************************************************************)
(* Bounds of the model.                                                    *)
(***************************************************************************)
MaxTicks == 3
MaxRequests == 3

\* POST /register requests the model lets in
MaxRegistrations == 2

(***************************************************************************)
(* Program constants.                                                      *)
(***************************************************************************)
\* INTERVAL '5 minutes' (the clock of the model counts minutes)
TTL == 5

\* the request processes that run concurrently
Procs == {"p1", "p2"}
Null == [null |-> TRUE]

(***************************************************************************)
(* String helpers on token sequences.                                      *)
(***************************************************************************)
startsWith(s, pre) ==
  /\ Len(pre) <= Len(s)
  /\ SubSeq(s, 1, Len(pre)) = pre

endsWith(s, suf) ==
  /\ Len(suf) <= Len(s)
  /\ SubSeq(s, Len(s) - Len(suf) + 1, Len(s)) = suf

includes(s, sub) ==
  \E i \in 1..(Len(s) + 1) :
    /\ i + Len(sub) - 1 <= Len(s)
    /\ SubSeq(s, i, i + Len(sub) - 1) = sub

\* index of the first token of s that is in set stop, Len(s)+1 when none
RECURSIVE indexOfAny(_, _, _)
indexOfAny(s, stop, i) ==
  IF i > Len(s) THEN Len(s) + 1
  ELSE IF s[i] \in stop THEN i
  ELSE indexOfAny(s, stop, i + 1)

(***************************************************************************)
(* encodeURIComponent / decodeURIComponent, token by token.  Reserved      *)
(* tokens are escaped; "%zz" is a malformed escape sequence, on which      *)
(* decodeURIComponent throws URIError.                                     *)
(***************************************************************************)
encodeToken(t) ==
  CASE t = "https://" -> "https%3A%2F%2F"
    [] t = "/" -> "%2F"
    [] t = "?" -> "%3F"
    [] t = "#" -> "%23"
    [] t = "=" -> "%3D"
    [] t = "%zz" -> "%25zz"
    [] OTHER -> t

decodeToken(t) ==
  CASE t = "https%3A%2F%2F" -> "https://"
    [] t = "%2F" -> "/"
    [] t = "%3F" -> "?"
    [] t = "%23" -> "#"
    [] t = "%3D" -> "="
    [] t = "%25zz" -> "%zz"
    [] OTHER -> t

encodeURIComponent(s) == [i \in 1..Len(s) |-> encodeToken(s[i])]

decodeThrows(s) == \E i \in 1..Len(s) : s[i] = "%zz"

decodeURIComponent(s) == [i \in 1..Len(s) |-> decodeToken(s[i])]

(***************************************************************************)
(* new URL(assetUrl): throws unless the string is absolute; hostname is    *)
(* what stands between the scheme and the first "/", "?" or "#".           *)
(***************************************************************************)
urlThrows(s) == ~ (Len(s) >= 2 /\ s[1] = "https://")

hostname(s) == SubSeq(s, 2, indexOfAny(s, {"/", "?", "#"}, 2) - 1)

(***************************************************************************)
(* GET /proxy/asset: the allow-list of CDN domains and its test.           *)
(***************************************************************************)
allowedDomains ==
  { <<"amazonaws", ".", "com">>,
    <<"notion", ".", "so">>,
    <<"notion", ".", "site">>,
    <<"notion", ".", "com">> }

domainAllowed(host) == \E domain \in allowedDomains : includes(host, domain)

(***************************************************************************)
(* getMimeType(path): the static-asset MIME table, by extension.           *)
(***************************************************************************)
getMimeType(path) ==
  IF endsWith(path, <<".js">>) \/ endsWith(path, <<".mjs">>) THEN "application/javascript"
  ELSE IF endsWith(path, <<".css">>) THEN "text/css"
  ELSE IF endsWith(path, <<".png">>) THEN "image/png"
  ELSE IF endsWith(path, <<".jpg">>) \/ endsWith(path, <<".jpeg">>) THEN "image/jpeg"
  ELSE IF endsWith(path, <<".gif">>) THEN "image/gif"
  ELSE IF endsWith(path, <<".svg">>) THEN "image/svg+xml"
  ELSE IF endsWith(path, <<".ico">>) THEN "image/x-icon"
  ELSE IF endsWith(path, <<".woff">>) THEN "font/woff"
  ELSE IF endsWith(path, <<".woff2">>) THEN "font/woff2"
  ELSE IF endsWith(path, <<".ttf">>) THEN "font/ttf"
  ELSE IF endsWith(path, <<".json">>) THEN "application/json"
  ELSE IF endsWith(path, <<".xml">>) THEN "application/xml"
  ELSE "null"

\* the content-type correction of the asset routes
correctedType(contentType, path) ==
  IF (contentType = "text/html" \/ contentType = "text/plain")
       /\ getMimeType(path) # "null"
  THEN getMimeType(path)
  ELSE contentType

(***************************************************************************)
(* State.                                                                  *)
(***************************************************************************)
VARIABLES
  now,            \* CURRENT_TIMESTAMP, in minutes
  usingDatabase,  \* server.js: let usingDatabase
  asset_cache,    \* table asset_cache: a set of rows, url is the key
  pc,             \* per request process: where its handler stands
  req,            \* per request process: the request it serves
  loc,            \* per request process: the handler's local variables
  res,            \* per request process: the response sent, Null before
  lastPut,        \* history: per url the arguments and time of the last
                  \* completed setCachedAsset since the last clearCache
  env,            \* process.env, fixed for the life of the process
  started,        \* number of requests received so far
  url_mappings,   \* table url_mappings: a set of rows, id is the key
  fallbackUrlMap, \* server.js: const fallbackUrlMap, id -> notionUrl
  nanoids,        \* number of ids drawn so far from nanoid / Math.random
  tracking,       \* table tracking: per name the number of rows
  resolved,       \* history: per id the number of getMapping calls that
                  \* returned its url
  migrations,     \* table migrations: the ids of the applied migrations
  boot,           \* initialize(): where it stands and its loop index
  headConfig      \* server.js: let headConfig

storeVars == <<url_mappings, fallbackUrlMap, nanoids, tracking, resolved>>

bootVars == <<migrations, boot, headConfig>>

mapVars == <<storeVars, bootVars>>

vars ==
  <<now, usingDatabase, asset_cache, pc, req, loc, res, lastPut, env, started,
    url_mappings, fallbackUrlMap, nanoids, tracking, resolved,
    migrations, boot, headConfig>>

NoLoc ==
  [ assetUrl |-> <<>>, cached |-> Null,
    read |-> FALSE, readAt |-> 0, lastPutAtRead |-> Null, deleted |-> 0,
    contentType |-> "null", content |-> "null", headers |-> {},
    fetched |-> 0, upstream |-> 0, wrote |-> FALSE, newId |-> 0,
    notionUrl |-> <<>>, threw |-> {},
    html |-> Null, links |-> <<>>, declared |-> "null", evicted |-> FALSE ]

setPc(p, l) == pc' = [pc EXCEPT ![p] = l]

respond_none(p, r) == res' = [res EXCEPT ![p] = Null]

\* res.send(...), res.json(...): the response of the request of p
respond(p, r) == res' = [res EXCEPT ![p] = r]

\* a request arrives at a free process; the callback of app.listen calls
\* initialize() before the first request is taken, so requests arrive from
\* its first await on
begin(p, r) ==
  /\ pc[p] \in {"idle", "done"}
  /\ boot.pc # "start"
  /\ started < MaxRequests
  /\ started' = started + 1
  /\ req' = [req EXCEPT ![p] = r]

status(p) == IF res[p] = Null THEN 0 ELSE res[p].status

(***************************************************************************)
(* The Cache Store: getCachedAsset is three statements, setCachedAsset and *)
(* clearCache one each.                                                    *)
(***************************************************************************)
\* DELETE FROM asset_cache WHERE expires_at < CURRENT_TIMESTAMP
deleteExpired(cache, t) == { r \in cache : ~ (r.expires_at < t) }

selectLive_anyRow(cache, url, t) == { r \in cache : r.url = url }

\* SELECT ... WHERE url = $1 AND expires_at > CURRENT_TIMESTAMP
selectLive(cache, url, t) == { r \in cache : r.url = url /\ r.expires_at > t }

\* UPDATE asset_cache SET hit_count = hit_count + 1 WHERE url = $1
bumpHits(cache, url) ==
  { IF r.url = url THEN [r EXCEPT !.hit_count = r.hit_count + 1] ELSE r : r \in cache }

\* the value a new row of asset_cache gets in cached_at, which the INSERT of
\* setCachedAsset leaves to the column default: the time of the insert
cachedAtDefault(t) == t

upsertAsset_keepExpiry(cache, url, contentType, content, headers, t) ==
  IF \E r \in cache : r.url = url
  THEN { IF r.url = url
         THEN [r EXCEPT !.content_type = contentType, !.content = content,
                        !.headers = headers, !.cached_at = t]
         ELSE r : r \in cache }
  ELSE cache \cup { [ url |-> url, content_type |-> contentType,
                      content |-> content, headers |-> headers,
                      cached_at |-> t, expires_at |-> t + TTL,
                      hit_count |-> 0 ] }

upsertAsset_mixed(cache, url, contentType, content, headers, t) ==
  IF \E r \in cache : r.url = url
  THEN { IF r.url = url
         THEN [r EXCEPT !.content = content, !.cached_at = t, !.expires_at = t + TTL]
         ELSE r : r \in cache }
  ELSE cache \cup { [ url |-> url, content_type |-> contentType,
                      content |-> content, headers |-> headers,
                      cached_at |-> t, expires_at |-> t + TTL,
                      hit_count |-> 0 ] }

upsertAsset_keepCachedAt(cache, url, contentType, content, headers, t) ==
  IF \E r \in cache : r.url = url
  THEN { IF r.url = url
         THEN [r EXCEPT !.content_type = contentType, !.content = content,
                        !.headers = headers, !.expires_at = t + TTL]
         ELSE r : r \in cache }
  ELSE cache \cup { [ url |-> url, content_type |-> contentType,
                      content |-> content, headers |-> headers,
                      cached_at |-> t, expires_at |-> t + TTL,
                      hit_count |-> 0 ] }

\* INSERT ... ON CONFLICT (url) DO UPDATE SET ...
upsertAsset(cache, url, contentType, content, headers, t) ==
  IF \E r \in cache : r.url = url
  THEN { IF r.url = url
         THEN [r EXCEPT !.content_type = contentType, !.content = content,
                        !.headers = headers, !.cached_at = t,
                        !.expires_at = t + TTL]
         ELSE r : r \in cache }
  ELSE cache \cup { [ url |-> url, content_type |-> contentType,
                      content |-> content, headers |-> headers,
                      cached_at |-> cachedAtDefault(t),
                      expires_at |-> t + TTL,
                      hit_count |-> 0 ] }

\* the response of a route whose getCachedAsset returned an entry
\* what the caller of getCachedAsset sends on a hit: the asset routes replay
\* the stored headers, proxyNotionPage and the catch-all set X-Cache and
\* Content-Type only
hitResponse(p) ==
  LET cached == loc[p].cached
  IN [ status |-> 200, xcache |-> "HIT",
       contentType |-> cached.contentType,
       body |-> cached.content,
       headers |-> IF req[p].route \in {"proxy_asset", "_assets", "assets"}
                   THEN cached.headers \ {"content-encoding", "content-length"}
                   ELSE {} ]

\* history: a request between the SELECT and the UPDATE of getCachedAsset
\* learns that the row it selected is among the deleted ones
markEvicted(gone) ==
  [q \in Procs |->
     IF pc[q] = "get_update" /\ \E r \in gone : r.url = loc[q].assetUrl
     THEN [loc[q] EXCEPT !.evicted = TRUE]
     ELSE loc[q]]

GetDelete(p) ==
  /\ pc[p] = "get_delete"
  /\ asset_cache' = deleteExpired(asset_cache, now)
  /\ loc' = markEvicted(asset_cache \ asset_cache')
  /\ setPc(p, "get_select")
  /\ UNCHANGED <<now, usingDatabase, req, res, lastPut, env, started, mapVars>>

GetSelect(p) ==
  /\ pc[p] = "get_select"
  /\ LET rows == selectLive(asset_cache, loc[p].assetUrl, now)
         url == loc[p].assetUrl
         seen == IF url \in DOMAIN lastPut THEN lastPut[url] ELSE Null
     IN IF rows # {}
        THEN LET row == CHOOSE r \in rows : TRUE
             IN /\ loc' = [loc EXCEPT ![p].cached =
                              [ contentType |-> row.content_type,
                                content |-> row.content,
                                headers |-> row.headers,
                                expires_at |-> row.expires_at,
                                cached |-> TRUE ],
                            ![p].read = TRUE,
                            ![p].readAt = now,
                            ![p].lastPutAtRead = seen]
                /\ setPc(p, "get_update")
        ELSE /\ loc' = [loc EXCEPT ![p].cached = Null,
                                   ![p].read = TRUE,
                            ![p].readAt = now,
                                   ![p].lastPutAtRead = seen]
             /\ setPc(p, "miss")
  /\ UNCHANGED <<now, usingDatabase, asset_cache, req, res, lastPut, env, started, mapVars>>

GetUpdate(p) ==
  /\ pc[p] = "get_update"
  /\ asset_cache' = bumpHits(asset_cache, loc[p].assetUrl)
  /\ respond(p, hitResponse(p))
  /\ setPc(p, "done")
  /\ UNCHANGED <<now, usingDatabase, req, loc, lastPut, env, started, mapVars>>

\* setCachedAsset(url, contentType, content, headers)
setCachedAsset(url, contentType, content, headers) ==
  /\ asset_cache' = upsertAsset(asset_cache, url, contentType, content, headers, now)
  /\ lastPut' = [u \in DOMAIN lastPut \cup {url} |->
                   IF u = url
                   THEN [contentType |-> contentType, content |-> content,
                         headers |-> headers, at |-> now]
                   ELSE lastPut[u]]

clearedRows_expiredOnly(cache, t) == { r \in cache : r.expires_at < t }

\* the rows DELETE FROM asset_cache removes
clearedRows(cache, t) == cache

\* clearCache(): DELETE FROM asset_cache, result.rowCount
clearCache ==
  /\ asset_cache' = asset_cache \ clearedRows(asset_cache, now)
  /\ lastPut' = [u \in DOMAIN lastPut |-> Null]

rowCount == Cardinality(clearedRows(asset_cache, now))

\* Time passes.  The clock is sampled at the instants k*TTL and k*TTL+1, so
\* that an entry written at one of them is later seen strictly inside its
\* TTL, exactly at its expiry and past it.
sampled(t) == 2 * (t \div TTL) + (t % TTL)

Tick ==
  /\ sampled(now) < MaxTicks
  /\ now' = IF now % TTL = 0 THEN now + 1 ELSE now + TTL - 1
  /\ UNCHANGED <<usingDatabase, asset_cache, pc, req, loc, res, lastPut, env, started, mapVars>>

(***************************************************************************)
(* The Mapping Store.  A row of url_mappings is                            *)
(* [id, notion_url, path, is_root, access_count]; path <<>> is NULL.       *)
(***************************************************************************)
AllMigrations == {"001_initial_schema", "002_add_tracking", "003_add_path_mapping"}

Slash == <<"/">>

mappingRow(id, notionUrl, path, isRoot) ==
  [ id |-> id, notion_url |-> notionUrl, path |-> path, is_root |-> isRoot,
    access_count |-> 0 ]

pathIndexOK_notUnique(rows) == TRUE

\* CREATE UNIQUE INDEX idx_url_mappings_path ON url_mappings(path)
\* WHERE path IS NOT NULL
pathIndexOK(rows) ==
  \A r1, r2 \in rows : (r1.path # <<>> /\ r1.path = r2.path) => r1.id = r2.id

\* a statement that would break the unique index fails and changes nothing
applied(rows, rows2) == IF pathIndexOK(rows2) THEN rows2 ELSE rows

\* SELECT notion_url FROM url_mappings WHERE id = $1
selectById_anyRow(rows, id) == rows

selectById(rows, id) == { r \in rows : r.id = id }

\* UPDATE url_mappings SET access_count = access_count + 1 ... WHERE id = $1
bumpAccess(rows, id) ==
  { IF r.id = id THEN [r EXCEPT !.access_count = r.access_count + 1] ELSE r : r \in rows }

\* INSERT INTO url_mappings (id, notion_url) VALUES ($1, $2)
\* ON CONFLICT (id) DO UPDATE SET notion_url = $2
insertMapping(rows, id, notionUrl) ==
  IF \E r \in rows : r.id = id
  THEN { IF r.id = id THEN [r EXCEPT !.notion_url = notionUrl] ELSE r : r \in rows }
  ELSE rows \cup { mappingRow(id, notionUrl, <<>>, FALSE) }

\* nanoid(10) and Math.random().toString(36): the next unused token
freshId == nanoids + 1

\* 003_add_path_mapping, its last statement:
\* UPDATE url_mappings SET is_root = TRUE, path = '/' WHERE notion_url = $1
\* AND NOT EXISTS (SELECT 1 FROM url_mappings WHERE is_root = TRUE)
migration003Update(rows, rootPage) ==
  IF \E r \in rows : r.is_root
  THEN rows
  ELSE { IF r.notion_url = rootPage
         THEN [r EXCEPT !.is_root = TRUE, !.path = Slash]
         ELSE r : r \in rows }

\* createMapping(notionUrl, null, path) of the current database module:
\* the insert of createMapping with the path column
insertMappingWithPath(rows, id, notionUrl, path) ==
  rows \cup { mappingRow(id, notionUrl, path, FALSE) }

\* setRootMapping(notionUrl), first statement: the present root is demoted
demoteRoot(rows) ==
  { IF r.is_root THEN [r EXCEPT !.is_root = FALSE, !.path = <<>>] ELSE r : r \in rows }

\* setRootMapping(notionUrl), second statement: the Mapping of notionUrl
\* becomes the root at path "/", created when there is none
promoteRoot(rows, id, notionUrl) ==
  IF \E r \in rows : r.notion_url = notionUrl
  THEN { IF r.notion_url = notionUrl
         THEN [r EXCEPT !.is_root = TRUE, !.path = Slash]
         ELSE r : r \in rows }
  ELSE rows \cup { mappingRow(id, notionUrl, Slash, TRUE) }

\* the id setRootMapping returns
rootIdOf(rows, id, notionUrl) ==
  IF \E r \in rows : r.notion_url = notionUrl
  THEN (CHOOSE r \in rows : r.notion_url = notionUrl).id
  ELSE id

(***************************************************************************)
(* Upstream: what a fetch can answer.  A response is ok (2xx) with a       *)
(* declared content type, a payload and headers, or not ok, or the         *)
(* transport fails.                                                        *)
(***************************************************************************)
\* the answers the upstream gives to asset requests
CacheResponses ==
  { [ kind |-> "ok", status |-> 200, contentType |-> "image/png",
      body |-> "b1", headers |-> {} ],
    [ kind |-> "ok", status |-> 200, contentType |-> "text/html",
      body |-> "b2", headers |-> {"etag", "set-cookie"} ],
    [ kind |-> "notok", status |-> 404, contentType |-> "null",
      body |-> "null", headers |-> {} ] }

\* the same, and the fetch that throws
ProxyResponses ==
  CacheResponses
  \cup { [ kind |-> "error", status |-> 0, contentType |-> "null",
           body |-> "null", headers |-> {} ] }

(***************************************************************************)
(* GET /proxy/asset?url=...                                                *)
(***************************************************************************)
headersToPassExternal == {"cache-control", "etag", "last-modified", "expires", "vary"}

plain(code) ==
  [ status |-> code, xcache |-> "none", contentType |-> "text/html",
    body |-> "message", headers |-> {} ]

\* up to the first await: parameter check, decoding, parsing, allow-list
ProxyAssetBegin(p, url) ==
  /\ begin(p, [route |-> "proxy_asset", url |-> url])
  /\ IF url = <<>>
     THEN /\ respond(p, plain(400)) /\ setPc(p, "done")
          /\ loc' = [loc EXCEPT ![p] = NoLoc]
     ELSE IF decodeThrows(url) \/ urlThrows(decodeURIComponent(url))
     THEN /\ respond(p, plain(500)) /\ setPc(p, "done")
          /\ loc' = [loc EXCEPT ![p] = NoLoc]
     ELSE IF ~ domainAllowed(hostname(decodeURIComponent(url)))
     THEN /\ respond(p, plain(403)) /\ setPc(p, "done")
          /\ loc' = [loc EXCEPT ![p] = NoLoc]
     ELSE /\ loc' = [loc EXCEPT ![p] = [NoLoc EXCEPT !.assetUrl = decodeURIComponent(url)]]
          /\ setPc(p, IF usingDatabase THEN "get_delete" ELSE "miss")
          /\ res' = [res EXCEPT ![p] = Null]
  /\ UNCHANGED <<now, usingDatabase, asset_cache, lastPut, env, mapVars>>

\* const response = await fetch(assetUrl) ... await response.buffer()
ProxyAssetFetch(p, r) ==
  /\ pc[p] = "miss"
  /\ req[p].route = "proxy_asset"
  /\ loc' = [loc EXCEPT ![p].fetched = @ + 1, ![p].upstream = r.status,
                        ![p].declared = r.contentType,
                        ![p].contentType = correctedType(r.contentType, loc[p].assetUrl),
                        ![p].content = r.body,
                        ![p].headers = r.headers \cap headersToPassExternal]
  /\ IF r.kind = "error"
     THEN /\ respond(p, plain(500)) /\ setPc(p, "done")
     ELSE IF r.kind = "notok"
     THEN /\ respond(p, plain(r.status)) /\ setPc(p, "done")
     ELSE IF usingDatabase
     THEN /\ setPc(p, "put") /\ UNCHANGED res
     ELSE /\ respond(p, [ status |-> 200, xcache |-> "MISS",
                          contentType |-> correctedType(r.contentType, loc[p].assetUrl),
                          body |-> r.body,
                          headers |-> r.headers \cap headersToPassExternal ])
          /\ setPc(p, "done")
  /\ UNCHANGED <<now, usingDatabase, asset_cache, req, lastPut, env, started, mapVars>>

\* await setCachedAsset(assetUrl, contentType, buffer, headersToSave); res.send(buffer)
ProxyAssetPut(p) ==
  /\ pc[p] = "put"
  /\ req[p].route = "proxy_asset"
  /\ setCachedAsset(loc[p].assetUrl, loc[p].contentType, loc[p].content, loc[p].headers)
  /\ respond(p, [ status |-> 200, xcache |-> "MISS",
                  contentType |-> loc[p].contentType,
                  body |-> loc[p].content,
                  headers |-> loc[p].headers ])
  /\ loc' = [loc EXCEPT ![p].wrote = TRUE]
  /\ setPc(p, "done")
  /\ UNCHANGED <<now, usingDatabase, req, env, started, mapVars>>

(***************************************************************************)
(* POST /cache/clear, with the key sent in the x-admin-key header and in   *)
(* the key query parameter ("" when absent).                               *)
(***************************************************************************)
providedKey_queryFirst(headerKey, queryKey) ==
  IF queryKey # "" THEN queryKey ELSE headerKey

\* const providedKey = req.headers['x-admin-key'] || req.query.key
providedKey(headerKey, queryKey) ==
  IF headerKey # "" THEN headerKey ELSE queryKey

CacheClear(p, headerKey, queryKey) ==
  /\ begin(p, [route |-> "cache_clear", url |-> <<>>,
               headerKey |-> headerKey, queryKey |-> queryKey])
  /\ LET adminKey == env.CACHE_ADMIN_KEY
     IN IF adminKey # "" /\ providedKey(headerKey, queryKey) # adminKey
        THEN /\ respond(p, [plain(401) EXCEPT !.body = "Unauthorized"])
             /\ UNCHANGED <<asset_cache, lastPut>>
        ELSE IF ~ usingDatabase
        THEN /\ respond(p, [plain(200) EXCEPT !.body = "Cache not available"])
             /\ UNCHANGED <<asset_cache, lastPut>>
        ELSE /\ clearCache
             /\ respond(p, [ status |-> 200, xcache |-> "none",
                             contentType |-> "application/json",
                             body |-> "Cache cleared",
                             entriesCleared |-> rowCount,
                             headers |-> {} ])
  /\ loc' = [markEvicted(asset_cache \ asset_cache') EXCEPT ![p] =
               [NoLoc EXCEPT !.deleted = Cardinality(asset_cache) - Cardinality(asset_cache')]]
  /\ setPc(p, "done")
  /\ UNCHANGED <<now, usingDatabase, env, mapVars>>

(***************************************************************************)
(* GET /cache/stats: getCacheStats is one SELECT of aggregates over the    *)
(* rows of asset_cache; the payloads b1 and b2 are one and two bytes long. *)
(***************************************************************************)
\* LENGTH(content)
LENGTH(content) == IF content = "b1" THEN 1 ELSE 2

statRows_all(cache, t) == cache

\* FROM asset_cache WHERE expires_at > CURRENT_TIMESTAMP
statRows(cache, t) == { r \in cache : r.expires_at > t }

\* SUM(hit_count), and parseInt(stats.total_hits) || 0 for the NULL of no rows
RECURSIVE total_hits(_)
total_hits(rows) ==
  IF rows = {} THEN 0
  ELSE LET r == CHOOSE x \in rows : TRUE
       IN r.hit_count + total_hits(rows \ {r})

\* SUM(LENGTH(content)), and parseInt(stats.total_size) || 0
RECURSIVE total_size(_)
total_size(rows) ==
  IF rows = {} THEN 0
  ELSE LET r == CHOOSE x \in rows : TRUE
       IN LENGTH(r.content) + total_size(rows \ {r})

\* n is the serial number of the request
CacheStats(p) ==
  /\ begin(p, [route |-> "cache_stats", url |-> <<>>, n |-> started])
  /\ IF ~ usingDatabase
     THEN respond(p, [plain(200) EXCEPT !.body = "Cache not available"])
     ELSE LET rows == statRows(asset_cache, now)
          IN respond(p, [ status |-> 200, xcache |-> "none",
                          contentType |-> "application/json",
                          body |-> "stats",
                          totalCached |-> Cardinality(rows),
                          totalHits |-> total_hits(rows),
                          totalSizeBytes |-> total_size(rows),
                          headers |-> {} ])
  /\ loc' = [loc EXCEPT ![p] = NoLoc]
  /\ setPc(p, "done")
  /\ UNCHANGED <<now, usingDatabase, asset_cache, lastPut, env, mapVars>>

(***************************************************************************)
(* The cache specification: /proxy/asset requests for allow-listed URLs,   *)
(* cache clears and the clock.                                             *)
(***************************************************************************)
UrlS3 == <<"https://", "s3", ".", "amazonaws", ".", "com", "/", "f", ".png">>

UrlFile == <<"https://", "file", ".", "notion", ".", "so", "/", "g">>

\* a foreign host
UrlEvil == <<"https://", "evil", ".", "net", "/", "f", ".png">>

\* a foreign host whose name contains an allow-listed domain
UrlLookalike ==
  <<"https://", "notion", ".", "so", ".", "evil", ".", "net", "/", "f", ".png">>

\* a foreign host, an allow-listed domain in the query only
UrlQuery ==
  <<"https://", "evil", ".", "net", "/", "f", ".png", "?", "ref", "=",
    "amazonaws", ".", "com">>

\* a malformed escape sequence
UrlBadEscape == <<"https://", "evil", ".", "net", "/", "%zz">>

\* not an absolute URL
UrlRelative == <<"f", ".png">>

CacheUrls == {UrlS3, UrlFile}

\* process.env with nothing configured
BaseEnv ==
  [ CACHE_ADMIN_KEY |-> "", DATABASE_URL |-> FALSE, ROOT_NOTION_PAGE |-> <<>>,
    NOTION_PAGES |-> <<>>, AUTO_DISCOVER_LINKS |-> FALSE ]

InitCommon ==
  /\ now = 0
  /\ pc = [p \in Procs |-> "idle"]
  /\ req = [p \in Procs |-> Null]
  /\ loc = [p \in Procs |-> NoLoc]
  /\ res = [p \in Procs |-> Null]
  /\ started = 0
  /\ tracking = [n \in {} |-> 0]
  /\ resolved = [i \in {} |-> 0]

\* server.js: let headConfig = { globalSnippets: [], pageSpecificSnippets: {} }
NoHeadConfig == [globalSnippets |-> <<>>, pageSpecificSnippets |-> [i \in {} |-> <<>>]]

\* nothing registered, no id drawn, no head snippets loaded
InitEmpty ==
  /\ InitCommon
  /\ fallbackUrlMap = [i \in {} |-> <<>>]
  /\ nanoids = 0
  /\ headConfig = NoHeadConfig

\* The table outlives the process: at startup it is empty or holds what an
\* earlier run of the server has just written.
InitCache ==
  /\ InitEmpty
  /\ url_mappings = {}
  /\ migrations = AllMigrations
  /\ boot = [pc |-> "ready", i |-> 0]
  /\ \/ /\ asset_cache = {}
        /\ lastPut = [u \in {} |-> Null]
     \/ /\ asset_cache = upsertAsset({}, UrlFile, "text/html", "b2", {}, 0)
        /\ lastPut = [u \in {UrlFile} |->
                        [contentType |-> "text/html", content |-> "b2",
                         headers |-> {}, at |-> 0]]
  /\ usingDatabase = TRUE
  /\ env = [BaseEnv EXCEPT !.DATABASE_URL = TRUE]

NextCache ==
  \/ \E p \in Procs, url \in CacheUrls : ProxyAssetBegin(p, url)
  \/ \E p \in Procs : GetDelete(p)
  \/ \E p \in Procs : GetSelect(p)
  \/ \E p \in Procs : GetUpdate(p)
  \/ \E p \in Procs, r \in CacheResponses : ProxyAssetFetch(p, r)
  \/ \E p \in Procs : ProxyAssetPut(p)
  \/ \E p \in Procs : CacheClear(p, "", "")
  \/ Tick

SpecCache == InitCache /\ [][NextCache]_vars

(***************************************************************************)
(* initialize(): migrations, autoDiscoverFromEnv, setRootMapping,          *)
(* getHeadConfigs; on any failure, and without DATABASE_URL, the in-memory *)
(* fallback.                                                               *)
(***************************************************************************)
\* rows of head_configs, as getHeadConfigs returns them
HeadTable ==
  [ globalSnippets |-> <<"g1", "g2">>,
    pageSpecificSnippets |-> [i \in {1} |-> <<"s1">>] ]

setBoot(l) == boot' = [boot EXCEPT !.pc = l]

\* autoDiscoverFromMemory(): one fallback entry per url of NOTION_PAGES
autoDiscoverFromMemory ==
  LET pages == env.NOTION_PAGES
  IN /\ fallbackUrlMap' =
          [i \in DOMAIN fallbackUrlMap \cup {nanoids + k : k \in 1..Len(pages)} |->
             IF i \in DOMAIN fallbackUrlMap THEN fallbackUrlMap[i] ELSE pages[i - nanoids]]
     /\ nanoids' = nanoids + Len(pages)

usingDatabaseAfterFailure_kept == TRUE

\* catch (error) { ...; usingDatabase = false; autoDiscoverFromMemory() }
usingDatabaseAfterFailure == FALSE

BootStart ==
  /\ boot.pc = "start"
  /\ IF env.DATABASE_URL
     THEN /\ setBoot("migrate")
          /\ UNCHANGED <<usingDatabase, fallbackUrlMap, nanoids>>
     ELSE /\ usingDatabase' = FALSE
          /\ autoDiscoverFromMemory
          /\ setBoot("ready")
  /\ UNCHANGED <<now, asset_cache, pc, req, loc, res, lastPut, env, started,
                 url_mappings, tracking, resolved, migrations, headConfig>>

\* initDatabase() -> runMigrations(pool): the pending 003 migration
BootMigrate ==
  /\ boot.pc = "migrate"
  /\ LET rows2 == migration003Update(url_mappings, env.ROOT_NOTION_PAGE)
     IN IF "003_add_path_mapping" \in migrations
        THEN /\ setBoot("discover_root")
             /\ UNCHANGED <<usingDatabase, url_mappings, migrations, fallbackUrlMap, nanoids>>
        ELSE IF pathIndexOK(rows2)
        THEN /\ url_mappings' = rows2
             /\ migrations' = migrations \cup {"003_add_path_mapping"}
             /\ setBoot("discover_root")
             /\ UNCHANGED <<usingDatabase, fallbackUrlMap, nanoids>>
        ELSE /\ usingDatabase' = usingDatabaseAfterFailure
             /\ autoDiscoverFromMemory
             /\ setBoot("failed")
             /\ UNCHANGED <<url_mappings, migrations>>
  /\ UNCHANGED <<now, asset_cache, pc, req, loc, res, lastPut, env, started,
                 tracking, resolved, headConfig>>

\* initDatabase() with the store unreachable: runMigrations' first query
\* throws, initDatabase rethrows, initialize() ends in its catch block
BootUnreachable ==
  /\ boot.pc = "migrate"
  /\ usingDatabase' = usingDatabaseAfterFailure
  /\ autoDiscoverFromMemory
  /\ setBoot("failed")
  /\ UNCHANGED <<now, asset_cache, pc, req, loc, res, lastPut, env, started,
                 url_mappings, tracking, resolved, migrations, headConfig>>

\* autoDiscoverFromEnv(): createMapping(ROOT_NOTION_PAGE)
BootDiscoverRoot ==
  /\ boot.pc = "discover_root"
  /\ IF env.ROOT_NOTION_PAGE # <<>>
     THEN /\ url_mappings' = insertMapping(url_mappings, freshId, env.ROOT_NOTION_PAGE)
          /\ nanoids' = nanoids + 1
     ELSE UNCHANGED <<url_mappings, nanoids>>
  /\ boot' = [pc |-> "discover_pages", i |-> 1]
  /\ UNCHANGED <<now, usingDatabase, asset_cache, pc, req, loc, res, lastPut, env,
                 started, fallbackUrlMap, tracking, resolved, migrations, headConfig>>

\* autoDiscoverFromEnv(): createMapping(url) for each url of NOTION_PAGES
BootDiscoverPages ==
  /\ boot.pc = "discover_pages"
  /\ IF boot.i <= Len(env.NOTION_PAGES)
     THEN /\ url_mappings' = insertMapping(url_mappings, freshId, env.NOTION_PAGES[boot.i])
          /\ nanoids' = nanoids + 1
          /\ boot' = [boot EXCEPT !.i = @ + 1]
     ELSE /\ boot' = [pc |-> IF env.ROOT_NOTION_PAGE # <<>> THEN "root_demote" ELSE "head",
                      i |-> 0]
          /\ UNCHANGED <<url_mappings, nanoids>>
  /\ UNCHANGED <<now, usingDatabase, asset_cache, pc, req, loc, res, lastPut, env,
                 started, fallbackUrlMap, tracking, resolved, migrations, headConfig>>

\* setRootMapping(ROOT_NOTION_PAGE), first statement
BootRootDemote ==
  /\ boot.pc = "root_demote"
  /\ url_mappings' = demoteRoot(url_mappings)
  /\ setBoot("root_promote")
  /\ UNCHANGED <<now, usingDatabase, asset_cache, pc, req, loc, res, lastPut, env,
                 started, fallbackUrlMap, nanoids, tracking, resolved, migrations,
                 headConfig>>

\* setRootMapping(ROOT_NOTION_PAGE), second statement
BootRootPromote ==
  /\ boot.pc = "root_promote"
  /\ url_mappings' =
       applied(url_mappings, promoteRoot(url_mappings, freshId, env.ROOT_NOTION_PAGE))
  /\ nanoids' = nanoids + 1
  /\ setBoot("head")
  /\ UNCHANGED <<now, usingDatabase, asset_cache, pc, req, loc, res, lastPut, env,
                 started, fallbackUrlMap, tracking, resolved, migrations, headConfig>>

\* headConfig = await getHeadConfigs()
BootHead ==
  /\ boot.pc = "head"
  /\ headConfig' = HeadTable
  /\ setBoot("ready")
  /\ UNCHANGED <<now, usingDatabase, asset_cache, pc, req, loc, res, lastPut, env,
                 started, storeVars, migrations>>

\* a statement on the path and is_root columns fails without a database or
\* before 003_add_path_mapping is applied
schemaReady == env.DATABASE_URL /\ "003_add_path_mapping" \in migrations

(***************************************************************************)
(* POST /register with body {notionUrl, path, isRoot}.  hasPath tells a    *)
(* body that carries a path (possibly the empty string) from one that      *)
(* carries none; notionUrl <<>> is a missing or empty notionUrl.           *)
(***************************************************************************)
truthy(str) == str # <<>>

\* if (path && !path.startsWith('/'))
pathRefused(body) == body.hasPath /\ truthy(body.path) /\ ~ startsWith(body.path, Slash)

registerReply(id, body) ==
  [ status |-> 200, xcache |-> "none", contentType |-> "application/json",
    headers |-> {}, body |-> "registered",
    id |-> id,
    legacyUrl |-> <<"/", "p", "/", id>>,
    transparentUrl |-> IF body.isRoot THEN Slash
                       ELSE IF body.hasPath /\ truthy(body.path) THEN body.path
                       ELSE <<>> ]

RegisterBegin(p, body) ==
  /\ started < MaxRegistrations
  /\ begin(p, [route |-> "register", url |-> <<>>, body |-> body])
  /\ IF ~ truthy(body.notionUrl)
     THEN /\ respond(p, plain(400)) /\ setPc(p, "done")
          /\ loc' = [loc EXCEPT ![p] = NoLoc]
          /\ UNCHANGED <<fallbackUrlMap, nanoids>>
     ELSE IF pathRefused(body)
     THEN /\ respond(p, plain(400)) /\ setPc(p, "done")
          /\ loc' = [loc EXCEPT ![p] = NoLoc]
          /\ UNCHANGED <<fallbackUrlMap, nanoids>>
     ELSE IF usingDatabase
     THEN /\ loc' = [loc EXCEPT ![p] = [NoLoc EXCEPT !.newId = freshId]]
          /\ nanoids' = nanoids + 1
          /\ setPc(p, IF body.isRoot THEN "root_demote" ELSE "create")
          /\ res' = [res EXCEPT ![p] = Null]
          /\ UNCHANGED fallbackUrlMap
     ELSE /\ fallbackUrlMap' =
               [i \in DOMAIN fallbackUrlMap \cup {freshId} |->
                  IF i = freshId THEN body.notionUrl ELSE fallbackUrlMap[i]]
          /\ nanoids' = nanoids + 1
          /\ loc' = [loc EXCEPT ![p] = [NoLoc EXCEPT !.newId = freshId]]
          /\ respond(p, registerReply(freshId, body))
          /\ setPc(p, "done")
  /\ UNCHANGED <<now, usingDatabase, asset_cache, lastPut, env, url_mappings,
                 tracking, resolved, bootVars>>

\* id = await createMapping(notionUrl, null, path)
RegisterCreate(p) ==
  /\ pc[p] = "create"
  /\ LET body == req[p].body
         rows2 == insertMappingWithPath(url_mappings, loc[p].newId, body.notionUrl,
                                        IF body.hasPath THEN body.path ELSE <<>>)
     IN IF schemaReady /\ pathIndexOK(rows2)
        THEN /\ url_mappings' = rows2
             /\ respond(p, registerReply(loc[p].newId, body))
        ELSE /\ UNCHANGED url_mappings
             /\ respond(p, plain(500))
  /\ setPc(p, "done")
  /\ UNCHANGED <<now, usingDatabase, asset_cache, req, loc, lastPut, env, started,
                 fallbackUrlMap, nanoids, tracking, resolved, bootVars>>

\* id = await setRootMapping(notionUrl), first statement
RegisterDemote(p) ==
  /\ pc[p] = "root_demote"
  /\ IF schemaReady
     THEN /\ url_mappings' = demoteRoot(url_mappings)
          /\ setPc(p, "root_promote")
          /\ UNCHANGED res
     ELSE /\ UNCHANGED url_mappings
          /\ respond(p, plain(500))
          /\ setPc(p, "done")
  /\ UNCHANGED <<now, usingDatabase, asset_cache, req, loc, lastPut, env,
                 started, fallbackUrlMap, nanoids, tracking, resolved, bootVars>>

\* id = await setRootMapping(notionUrl), second statement
RegisterPromote(p) ==
  /\ pc[p] = "root_promote"
  /\ LET body == req[p].body
         rows2 == promoteRoot(url_mappings, loc[p].newId, body.notionUrl)
     IN IF schemaReady /\ pathIndexOK(rows2)
        THEN /\ url_mappings' = rows2
             /\ respond(p, registerReply(rootIdOf(url_mappings, loc[p].newId, body.notionUrl), body))
        ELSE /\ UNCHANGED url_mappings
             /\ respond(p, plain(500))
  /\ setPc(p, "done")
  /\ UNCHANGED <<now, usingDatabase, asset_cache, req, loc, lastPut, env, started,
                 fallbackUrlMap, nanoids, tracking, resolved, bootVars>>

(***************************************************************************)
(* The rewriter of proxyNotionPage.  A document is its elements in         *)
(* document order, each a tag with the url of its src or href attribute,   *)
(* and what has been appended to its head.                                 *)
(***************************************************************************)
element(tag, url) == [tag |-> tag, url |-> url]

document(elems) == [elems |-> elems, head |-> <<>>]

\* s.indexOf(sub), 0 when sub does not occur
indexOf(s, sub) ==
  IF includes(s, sub)
  THEN CHOOSE i \in 1..Len(s) :
         /\ SubSeq(s, i, i + Len(sub) - 1) = sub
         /\ \A j \in 1..(i - 1) : SubSeq(s, j, j + Len(sub) - 1) # sub
  ELSE 0

\* what follows the first occurrence of sub in s
after(s, sub) == SubSeq(s, indexOf(s, sub) + Len(sub), Len(s))

AssetsPrefix == <<"https://", "www", ".", "notion", ".", "so", "/", "_assets", "/">>

SiteAssets == <<"notion", ".", "site", "/", "assets", "/">>

AmazonAws == <<"amazonaws", ".", "com">>

NotionSo == <<"notion", ".", "so">>

proxied(url) == <<"/proxy/asset?url=">> \o encodeURIComponent(url)

\* $('script[src*="analytics"]').remove(), and "gtag", and "segment"
isAnalytics(e) ==
  /\ e.tag = "script"
  /\ \E word \in {"analytics", "gtag", "segment"} : includes(e.url, <<word>>)

\* $('script[src], link[href]').each(...)
rewriteAssetUrl(originalUrl) ==
  IF originalUrl = <<>> THEN originalUrl
  ELSE IF startsWith(originalUrl, AssetsPrefix)
  THEN <<"/", "_assets", "/">> \o after(originalUrl, AssetsPrefix)
  ELSE IF includes(originalUrl, SiteAssets)
  THEN IF after(originalUrl, SiteAssets) # <<>>
       THEN <<"/", "assets", "/">> \o after(originalUrl, SiteAssets)
       ELSE originalUrl
  ELSE IF includes(originalUrl, AmazonAws)
  THEN proxied(originalUrl)
  ELSE originalUrl

\* $('img[src]').each(...)
rewriteImgUrl(originalUrl) ==
  IF originalUrl # <<>>
       /\ (includes(originalUrl, AmazonAws) \/ includes(originalUrl, NotionSo))
  THEN proxied(originalUrl)
  ELSE originalUrl

rewriteElement(e) ==
  IF e.tag \in {"script", "link"} THEN element(e.tag, rewriteAssetUrl(e.url))
  ELSE IF e.tag = "img" THEN element(e.tag, rewriteImgUrl(e.url))
  ELSE e

keptElement(e) == ~ isAnalytics(e)

\* the head snippets proxyNotionPage appends, each list joined into one
headSnippets(config, pageId) ==
  (IF Len(config.globalSnippets) > 0 THEN <<config.globalSnippets>> ELSE <<>>)
  \o (IF pageId \in DOMAIN config.pageSpecificSnippets
      THEN <<config.pageSpecificSnippets[pageId]>> ELSE <<>>)

\* from cheerio.load(html) to $.html()
rewritePage(html, config, pageId) ==
  LET kept == SelectSeq(html.elems, keptElement)
  IN [ elems |-> [i \in 1..Len(kept) |-> rewriteElement(kept[i])],
       head |-> html.head \o headSnippets(config, pageId) ]

(***************************************************************************)
(* GET /p/:id and proxyNotionPage.                                         *)
(***************************************************************************)
count(f, k) == IF k \in DOMAIN f THEN f[k] ELSE 0

\* the routes that end in proxyNotionPage: /p/:id, / and the catch-all
PageRoutes == {"page", "root", "path"}

\* const pageId = req.params.id || req.path: only /p/:id has params.id, and
\* no head_configs row of HeadTable is keyed by a request path
pageIdOf(p) == IF req[p].route = "page" THEN req[p].id ELSE 0

pageCacheKey_perMapping(notionUrl, id) == notionUrl \o <<id>>

\* the key proxyNotionPage reads and writes the cache under: notionUrl alone
pageCacheKey(notionUrl, id) == notionUrl

\* res.status(response.status).send(...) on an upstream answer that is not ok
mirrored_generic(r) == plain(500)

mirrored(r) == plain(r.status)

increment(f, k) == [i \in DOMAIN f \cup {k} |-> count(f, i) + IF i = k THEN 1 ELSE 0]

\* const { id } = req.params; fallbackUrlMap.get(id) when there is no database
ResolveBegin(p, id) ==
  /\ begin(p, [route |-> "page", url |-> <<>>, id |-> id])
  /\ IF usingDatabase
     THEN /\ loc' = [loc EXCEPT ![p] = NoLoc]
          /\ res' = [res EXCEPT ![p] = Null]
          /\ setPc(p, "map_select")
          /\ UNCHANGED resolved
     ELSE IF id \in DOMAIN fallbackUrlMap /\ truthy(fallbackUrlMap[id])
     THEN /\ loc' = [loc EXCEPT ![p] = [NoLoc EXCEPT !.notionUrl = fallbackUrlMap[id],
                                                     !.assetUrl = fallbackUrlMap[id]]]
          /\ res' = [res EXCEPT ![p] = Null]
          /\ setPc(p, "miss")
          /\ resolved' = increment(resolved, id)
     ELSE /\ loc' = [loc EXCEPT ![p] = NoLoc]
          /\ respond(p, plain(404))
          /\ setPc(p, "done")
          /\ UNCHANGED resolved
  /\ UNCHANGED <<now, usingDatabase, asset_cache, lastPut, env, url_mappings,
                 fallbackUrlMap, nanoids, tracking, bootVars>>

\* getMapping(id), the SELECT
MapSelect(p) ==
  /\ pc[p] = "map_select"
  /\ LET rows == selectById(url_mappings, req[p].id)
     IN IF rows # {}
        THEN LET row == CHOOSE r \in rows : TRUE
             IN /\ loc' = [loc EXCEPT ![p].notionUrl = row.notion_url]
                /\ setPc(p, "map_update")
                /\ UNCHANGED res
        ELSE /\ respond(p, plain(404))
             /\ setPc(p, "done")
             /\ UNCHANGED loc
  /\ UNCHANGED <<now, usingDatabase, asset_cache, req, lastPut, env, started,
                 mapVars>>

\* getMapping(id), the UPDATE, and its return
MapUpdate(p) ==
  /\ pc[p] = "map_update"
  /\ url_mappings' = bumpAccess(url_mappings, req[p].id)
  /\ resolved' = increment(resolved, req[p].id)
  /\ IF ~ truthy(loc[p].notionUrl)
     THEN respond(p, plain(404)) /\ setPc(p, "done") /\ UNCHANGED loc
     ELSE IF usingDatabase \/ req[p].route # "page"
     THEN setPc(p, "track") /\ UNCHANGED <<res, loc>>
     ELSE /\ loc' = [loc EXCEPT ![p].assetUrl = pageCacheKey(loc[p].notionUrl, req[p].id)]
          /\ setPc(p, "miss")
          /\ UNCHANGED res
  /\ UNCHANGED <<now, usingDatabase, asset_cache, req, lastPut, env, started,
                 fallbackUrlMap, nanoids, tracking, bootVars>>

\* await recordTracking(id, 'page', ...), then proxyNotionPage up to its
\* first await; the earlier version of the route goes on to its fetch
Track(p) ==
  /\ pc[p] = "track"
  /\ tracking' = increment(tracking, req[p].id)
  /\ loc' = [loc EXCEPT ![p].assetUrl = pageCacheKey(loc[p].notionUrl, req[p].id)]
  /\ setPc(p, IF usingDatabase /\ req[p].route = "page" THEN "get_delete" ELSE "miss")
  /\ UNCHANGED <<now, usingDatabase, asset_cache, req, res, lastPut, env, started,
                 url_mappings, fallbackUrlMap, nanoids, resolved, bootVars>>

\* const response = await fetch(notionUrl) ... res.send(modifiedHtml);
\* res.set('X-Cache', 'MISS') precedes the fetch, so every answer carries it
PageFetch(p, r) ==
  /\ pc[p] = "miss"
  /\ req[p].route \in PageRoutes
  /\ IF r.kind = "error"
     THEN /\ respond(p, [plain(500) EXCEPT !.xcache = "MISS"]) /\ setPc(p, "done")
          /\ loc' = [loc EXCEPT ![p].fetched = @ + 1, ![p].upstream = r.status]
     ELSE IF r.kind = "notok"
     THEN /\ respond(p, [mirrored(r) EXCEPT !.xcache = "MISS"]) /\ setPc(p, "done")
          /\ loc' = [loc EXCEPT ![p].fetched = @ + 1, ![p].upstream = r.status]
     ELSE LET modifiedHtml == rewritePage(r.body, headConfig, pageIdOf(p))
          IN /\ loc' = [loc EXCEPT ![p].fetched = @ + 1, ![p].upstream = r.status,
                                   ![p].html = r.body,
                                   ![p].contentType = "text/html",
                                   ![p].content = modifiedHtml,
                                   ![p].headers = {"content-type"}]
             /\ respond(p, [ status |-> 200, xcache |-> "MISS",
                             contentType |-> "text/html",
                             body |-> modifiedHtml, headers |-> {} ])
             /\ setPc(p, IF usingDatabase THEN "put" ELSE "done")
  /\ UNCHANGED <<now, usingDatabase, asset_cache, req, lastPut, env, started, mapVars>>

\* await setCachedAsset(notionUrl, 'text/html', Buffer.from(modifiedHtml), ...)
PagePut(p) ==
  /\ pc[p] = "put"
  /\ req[p].route \in PageRoutes
  /\ setCachedAsset(loc[p].assetUrl, loc[p].contentType, loc[p].content, loc[p].headers)
  /\ loc' = [loc EXCEPT ![p].wrote = TRUE]
  /\ setPc(p, "done")
  /\ UNCHANGED <<now, usingDatabase, req, res, env, started, mapVars>>

(***************************************************************************)
(* GET /_assets/* and GET /assets/*: the platform's own assets.  req.path  *)
(* is a token sequence such as <<"/", "_assets", "/", "app", ".js">>.      *)
(***************************************************************************)
NotionOrigin == <<"https://", "www", ".", "notion", ".", "so">>

headersToPass ==
  headersToPassExternal
  \cup {"access-control-allow-origin", "access-control-allow-methods",
        "access-control-allow-headers"}

\* assetPath: req.path, and req.path.replace('/assets/', '/_assets/')
assetPath(route, path) ==
  IF route = "assets" /\ startsWith(path, <<"/", "assets", "/">>)
  THEN <<"/", "_assets", "/">> \o SubSeq(path, 4, Len(path))
  ELSE path

\* up to the first await of either handler
AssetBegin(p, route, path) ==
  /\ \/ route = "_assets" /\ startsWith(path, <<"/", "_assets", "/">>)
     \/ route = "assets" /\ startsWith(path, <<"/", "assets", "/">>)
  /\ begin(p, [route |-> route, url |-> path])
  /\ loc' = [loc EXCEPT ![p] =
               [NoLoc EXCEPT !.assetUrl = NotionOrigin \o assetPath(route, path)]]
  /\ res' = [res EXCEPT ![p] = Null]
  /\ setPc(p, IF usingDatabase THEN "get_delete" ELSE "miss")
  /\ UNCHANGED <<now, usingDatabase, asset_cache, lastPut, env, mapVars>>

\* const response = await fetch(notionAssetUrl) ... await response.buffer()
AssetFetch(p, r) ==
  /\ pc[p] = "miss"
  /\ req[p].route \in {"_assets", "assets"}
  /\ LET contentType == correctedType(r.contentType, req[p].url)
         headersToSave == r.headers \cap headersToPass
     IN /\ loc' = [loc EXCEPT ![p].fetched = @ + 1, ![p].upstream = r.status,
                              ![p].declared = r.contentType,
                              ![p].contentType = contentType,
                              ![p].content = r.body,
                              ![p].headers = headersToSave]
        /\ IF r.kind = "error"
           THEN /\ respond(p, plain(500)) /\ setPc(p, "done")
           ELSE IF r.kind = "notok"
           THEN /\ respond(p, mirrored(r)) /\ setPc(p, "done")
           ELSE IF usingDatabase
           THEN /\ setPc(p, "put") /\ UNCHANGED res
           ELSE /\ respond(p, [ status |-> 200, xcache |-> "MISS",
                                contentType |-> contentType,
                                body |-> r.body,
                                headers |-> headersToSave ])
                /\ setPc(p, "done")
  /\ UNCHANGED <<now, usingDatabase, asset_cache, req, lastPut, env, started, mapVars>>

\* await setCachedAsset(notionAssetUrl, contentType, buffer, headersToSave); res.send(buffer)
AssetPut(p) ==
  /\ pc[p] = "put"
  /\ req[p].route \in {"_assets", "assets"}
  /\ setCachedAsset(loc[p].assetUrl, loc[p].contentType, loc[p].content, loc[p].headers)
  /\ respond(p, [ status |-> 200, xcache |-> "MISS",
                  contentType |-> loc[p].contentType,
                  body |-> loc[p].content,
                  headers |-> loc[p].headers ])
  /\ loc' = [loc EXCEPT ![p].wrote = TRUE]
  /\ setPc(p, "done")
  /\ UNCHANGED <<now, usingDatabase, req, env, started, mapVars>>

(***************************************************************************)
(* GET /*, the catch-all: reserved prefixes, then the extension table,     *)
(* then the path lookup of the Mapping Store.                              *)
(***************************************************************************)
reserved(path) ==
  \/ startsWith(path, <<"/", "_assets", "/">>)
  \/ startsWith(path, <<"/", "assets", "/">>)
  \/ startsWith(path, <<"/", "proxy", "/">>)
  \/ startsWith(path, <<"/", "p", "/">>)
  \/ startsWith(path, <<"/", "pixel", "/">>)
  \/ path \in { <<"/", "list">>, <<"/", "health">>, <<"/", "cache">>,
                <<"/", "register">> }

\* up to the first await: a path with a known extension is a static asset
\* whatever the Mapping Store holds
CatchAllBegin(p, path) ==
  /\ path # Slash
  /\ LET mimeType == getMimeType(path)
     IN IF reserved(path)
        THEN /\ begin(p, [route |-> "path", url |-> path])
             /\ respond(p, plain(404)) /\ setPc(p, "done")
             /\ loc' = [loc EXCEPT ![p] = NoLoc]
        ELSE IF mimeType # "null"
        THEN /\ begin(p, [route |-> "static", url |-> path])
             /\ loc' = [loc EXCEPT ![p] =
                          [NoLoc EXCEPT !.assetUrl = NotionOrigin \o path,
                                        !.contentType = mimeType]]
             /\ res' = [res EXCEPT ![p] = Null]
             /\ setPc(p, IF usingDatabase THEN "get_delete" ELSE "miss")
        ELSE IF usingDatabase
        THEN /\ begin(p, [route |-> "path", url |-> path])
             /\ loc' = [loc EXCEPT ![p] = NoLoc]
             /\ res' = [res EXCEPT ![p] = Null]
             /\ setPc(p, "path_select")
        ELSE /\ begin(p, [route |-> "path", url |-> path])
             /\ respond(p, plain(404)) /\ setPc(p, "done")
             /\ loc' = [loc EXCEPT ![p] = NoLoc]
  /\ UNCHANGED <<now, usingDatabase, asset_cache, lastPut, env, mapVars>>

\* const response = await fetch(notionAssetUrl) ... res.send(buffer)
StaticFetch(p, r) ==
  /\ pc[p] = "miss"
  /\ req[p].route = "static"
  /\ IF r.kind = "error"
     THEN /\ respond(p, plain(500)) /\ setPc(p, "done")
          /\ loc' = [loc EXCEPT ![p].fetched = @ + 1, ![p].upstream = r.status]
     ELSE IF r.kind = "notok"
     THEN /\ respond(p, mirrored(r)) /\ setPc(p, "done")
          /\ loc' = [loc EXCEPT ![p].fetched = @ + 1, ![p].upstream = r.status]
     ELSE /\ loc' = [loc EXCEPT ![p].fetched = @ + 1, ![p].upstream = r.status,
                                ![p].content = r.body,
                                ![p].headers = {"content-type"}]
          /\ respond(p, [ status |-> 200, xcache |-> "MISS",
                          contentType |-> loc[p].contentType,
                          body |-> r.body,
                          headers |-> {"cache-control"} ])
          /\ setPc(p, IF usingDatabase THEN "put" ELSE "done")
  /\ UNCHANGED <<now, usingDatabase, asset_cache, req, lastPut, env, started, mapVars>>

\* await setCachedAsset(notionAssetUrl, mimeType, buffer, {'content-type': mimeType})
StaticPut(p) ==
  /\ pc[p] = "put"
  /\ req[p].route = "static"
  /\ setCachedAsset(loc[p].assetUrl, loc[p].contentType, loc[p].content, loc[p].headers)
  /\ loc' = [loc EXCEPT ![p].wrote = TRUE]
  /\ setPc(p, "done")
  /\ UNCHANGED <<now, usingDatabase, req, res, env, started, mapVars>>

\* getMappingByPath(path): the row registered under exactly this path, its
\* access counted; then proxyNotionPage up to its first await
PathSelect(p) ==
  /\ pc[p] = "path_select"
  /\ LET rows == { r \in url_mappings : r.path = req[p].url }
     IN IF rows # {}
        THEN LET row == CHOOSE r \in rows : TRUE
             IN /\ url_mappings' = bumpAccess(url_mappings, row.id)
                /\ resolved' = increment(resolved, row.id)
                /\ loc' = [loc EXCEPT ![p].notionUrl = row.notion_url,
                                      ![p].assetUrl = pageCacheKey(row.notion_url, row.id)]
                /\ setPc(p, IF usingDatabase THEN "get_delete" ELSE "miss")
                /\ UNCHANGED res
        ELSE /\ respond(p, plain(404)) /\ setPc(p, "done")
             /\ UNCHANGED <<loc, url_mappings, resolved>>
  /\ UNCHANGED <<now, usingDatabase, asset_cache, req, lastPut, env, started,
                 fallbackUrlMap, nanoids, tracking, bootVars>>

(***************************************************************************)
(* Store errors.  Each store function wraps its statements in try/catch:   *)
(* a statement that throws ends the function in its catch branch, and the  *)
(* handler goes on with the value the catch branch returns.                *)
(***************************************************************************)
getCachedAssetCatches_no == FALSE

\* getCachedAsset: catch (error) { ...; return null }
getCachedAssetCatches == TRUE

\* one of the statements of getCachedAsset throws
GetThrows(p) ==
  /\ pc[p] \in {"get_delete", "get_select", "get_update"}
  /\ IF getCachedAssetCatches
     THEN /\ loc' = [loc EXCEPT ![p].cached = Null, ![p].threw = @ \cup {"get"}]
          /\ setPc(p, "miss")
          /\ UNCHANGED res
     ELSE /\ loc' = [loc EXCEPT ![p].cached = Null, ![p].threw = @ \cup {"get"}]
          /\ respond(p, plain(500))
          /\ setPc(p, "done")
  /\ UNCHANGED <<now, usingDatabase, asset_cache, req, lastPut, env, started, mapVars>>

\* one of the statements of getMapping throws: catch (error) { return null }
MapThrows(p) ==
  /\ pc[p] \in {"map_select", "map_update"}
  /\ loc' = [loc EXCEPT ![p].notionUrl = <<>>, ![p].threw = @ \cup {"map"}]
  /\ respond(p, plain(404))
  /\ setPc(p, "done")
  /\ UNCHANGED <<now, usingDatabase, asset_cache, req, lastPut, env, started, mapVars>>

\* the INSERT of recordTracking throws: catch (error) { return false }
TrackThrows(p) ==
  /\ pc[p] = "track"
  /\ req[p].route = "page"
  /\ loc' = [loc EXCEPT ![p].assetUrl = pageCacheKey(loc[p].notionUrl, req[p].id),
                        ![p].threw = @ \cup {"track"}]
  /\ setPc(p, IF usingDatabase THEN "get_delete" ELSE "miss")
  /\ UNCHANGED <<now, usingDatabase, asset_cache, req, res, lastPut, env, started, mapVars>>

afterPutFailure_error(sent) == plain(500)

\* setCachedAsset: catch (error) { ...; return false }: nothing reaches the
\* handler, which has sent its response and does not look at the result
afterPutFailure(sent) == sent

\* the upsert of setCachedAsset throws: catch (error) { return false }; the
\* asset routes send the buffer after it, the others have sent already
PutThrows(p) ==
  /\ pc[p] = "put"
  /\ loc' = [loc EXCEPT ![p].threw = @ \cup {"put"}]
  /\ IF req[p].route \in {"_assets", "assets", "proxy_asset"}
     THEN respond(p, [ status |-> 200, xcache |-> "MISS",
                       contentType |-> loc[p].contentType,
                       body |-> loc[p].content,
                       headers |-> loc[p].headers ])
     ELSE respond(p, afterPutFailure(res[p]))
  /\ setPc(p, "done")
  /\ UNCHANGED <<now, usingDatabase, asset_cache, req, lastPut, env, started, mapVars>>

(***************************************************************************)
(* GET /p/:id, the earlier version of the route: it fetches without the    *)
(* cache, rewrites script, link and img alike, and with                    *)
(* AUTO_DISCOVER_LINKS registers the pages the anchors link to.            *)
(***************************************************************************)
Notion == <<"notion">>

NotionSite == <<"notion", ".", "site">>

\* src.substring(src.indexOf(sub))
from(s, sub) == SubSeq(s, indexOf(s, sub), Len(s))

\* the one rule the earlier version applies to script src, link href, img src
rewriteUrlEarlier(src) ==
  IF src = <<>> THEN src
  ELSE IF includes(src, NotionSo \o <<"/", "_assets", "/">>)
          \/ includes(src, NotionSite \o <<"/", "_assets", "/">>)
  THEN from(src, <<"/", "_assets", "/">>)
  ELSE IF includes(src, NotionSo \o <<"/", "assets", "/">>)
          \/ includes(src, NotionSite \o <<"/", "assets", "/">>)
  THEN from(src, <<"/", "assets", "/">>)
  ELSE IF startsWith(src, <<"https://">>)
          /\ (includes(src, AmazonAws) \/ includes(src, Notion))
  THEN proxied(src)
  ELSE src

rewriteElementEarlier(e) ==
  IF e.tag \in {"script", "link", "img"}
  THEN element(e.tag, rewriteUrlEarlier(e.url))
  ELSE e

\* href.split('?')[0].split('#')[0]
cleanUrl(href) == SubSeq(href, 1, indexOfAny(href, {"?", "#"}, 1) - 1)

\* $('a[href*="notion.so"], a[href*="notion.site"]')
isNotionLink(e) ==
  e.tag = "a" /\ (includes(e.url, NotionSo) \/ includes(e.url, NotionSite))

\* notionLinks: the clean urls in the order a Set keeps, first insertion first
RECURSIVE notionLinks(_)
notionLinks(elems) ==
  IF elems = <<>> THEN <<>>
  ELSE LET front == notionLinks(SubSeq(elems, 1, Len(elems) - 1))
           e == elems[Len(elems)]
       IN IF isNotionLink(e) /\ \A i \in 1..Len(front) : front[i] # cleanUrl(e.url)
          THEN Append(front, cleanUrl(e.url))
          ELSE front

\* $(`a[href="${link}"]`).attr('href', `/p/${id}`)
replaceLink(html, link, id) ==
  [html EXCEPT !.elems =
     [i \in 1..Len(html.elems) |->
        IF html.elems[i].tag = "a" /\ html.elems[i].url = link
        THEN element("a", <<"/", "p", "/", id>>)
        ELSE html.elems[i]]]

\* headConfig.globalSnippets?.forEach(...), pageSnippets.forEach(...)
headSnippetsEarlier(config, pageId) ==
  config.globalSnippets
  \o (IF pageId \in DOMAIN config.pageSpecificSnippets
      THEN config.pageSpecificSnippets[pageId] ELSE <<>>)

\* from the head snippets to res.send($.html())
sendEarlier(p, html) ==
  /\ respond(p, [ status |-> 200, xcache |-> "none", contentType |-> "text/html",
                  body |-> [html EXCEPT !.head =
                              @ \o headSnippetsEarlier(headConfig, req[p].id)],
                  headers |-> {} ])
  /\ setPc(p, "done")

EarlierBegin(p, id) ==
  /\ begin(p, [route |-> "page_earlier", url |-> <<>>, id |-> id])
  /\ IF usingDatabase
     THEN /\ loc' = [loc EXCEPT ![p] = NoLoc]
          /\ res' = [res EXCEPT ![p] = Null]
          /\ setPc(p, "map_select")
          /\ UNCHANGED <<resolved, tracking>>
     ELSE IF id \in DOMAIN fallbackUrlMap /\ truthy(fallbackUrlMap[id])
     THEN /\ loc' = [loc EXCEPT ![p] = [NoLoc EXCEPT !.notionUrl = fallbackUrlMap[id],
                                                     !.assetUrl = fallbackUrlMap[id]]]
          /\ res' = [res EXCEPT ![p] = Null]
          /\ setPc(p, "miss")
          /\ resolved' = increment(resolved, id)
          /\ tracking' = increment(tracking, id)
     ELSE /\ loc' = [loc EXCEPT ![p] = NoLoc]
          /\ respond(p, plain(404))
          /\ setPc(p, "done")
          /\ UNCHANGED <<resolved, tracking>>
  /\ UNCHANGED <<now, usingDatabase, asset_cache, lastPut, env, url_mappings,
                 fallbackUrlMap, nanoids, bootVars>>

\* const response = await fetch(notionUrl); const html = await response.text()
\* and the rewriting, up to the first await of the discovery loop
EarlierFetch(p, r) ==
  /\ pc[p] = "miss"
  /\ req[p].route = "page_earlier"
  /\ IF r.kind = "error"
     THEN /\ respond(p, plain(500)) /\ setPc(p, "done")
          /\ loc' = [loc EXCEPT ![p].fetched = @ + 1, ![p].upstream = r.status]
     ELSE LET html == IF r.kind = "ok" THEN r.body ELSE document(<<>>)
              modified == [html EXCEPT !.elems =
                             [i \in 1..Len(html.elems) |->
                                rewriteElementEarlier(html.elems[i])]]
              links == IF env.AUTO_DISCOVER_LINKS /\ usingDatabase
                       THEN notionLinks(modified.elems) ELSE <<>>
          IN /\ loc' = [loc EXCEPT ![p].fetched = @ + 1, ![p].upstream = r.status,
                                   ![p].html = html,
                                   ![p].content = modified,
                                   ![p].links = links]
             /\ IF links = <<>>
                THEN sendEarlier(p, modified)
                ELSE setPc(p, "discover_list") /\ UNCHANGED res
  /\ UNCHANGED <<now, usingDatabase, asset_cache, req, lastPut, env, started, mapVars>>

\* const existingMappings = await getAllMappings(), and the branch on exists
DiscoverList(p) ==
  /\ pc[p] = "discover_list"
  /\ LET link == Head(loc[p].links)
         existing == { m \in url_mappings : m.notion_url = link }
     IN IF existing = {}
        THEN /\ setPc(p, "discover_create")
             /\ UNCHANGED <<loc, res>>
        ELSE \E m \in existing :
               LET html == replaceLink(loc[p].content, link, m.id)
               IN /\ loc' = [loc EXCEPT ![p].content = html,
                                        ![p].links = Tail(loc[p].links)]
                  /\ IF Tail(loc[p].links) = <<>>
                     THEN sendEarlier(p, html)
                     ELSE UNCHANGED <<pc, res>>
  /\ UNCHANGED <<now, usingDatabase, asset_cache, req, lastPut, env, started, mapVars>>

\* const newId = await createMapping(link), and the replacement
DiscoverCreate(p) ==
  /\ pc[p] = "discover_create"
  /\ LET link == Head(loc[p].links)
         html == replaceLink(loc[p].content, link, freshId)
     IN /\ url_mappings' = insertMapping(url_mappings, freshId, link)
        /\ nanoids' = nanoids + 1
        /\ loc' = [loc EXCEPT ![p].content = html,
                              ![p].links = Tail(loc[p].links),
                              ![p].newId = freshId]
        /\ IF Tail(loc[p].links) = <<>>
           THEN sendEarlier(p, html)
           ELSE setPc(p, "discover_list") /\ UNCHANGED res
  /\ UNCHANGED <<now, usingDatabase, asset_cache, req, lastPut, env, started,
                 fallbackUrlMap, tracking, resolved, bootVars>>

(***************************************************************************)
(* The Mapping Store specification: the server starts on a table left by   *)
(* earlier runs, initialize() runs while POST /register requests arrive.   *)
(***************************************************************************)
RootUrl == <<"https://", "www", ".", "notion", ".", "so", "/", "Home">>

PageUrl == <<"https://", "www", ".", "notion", ".", "so", "/", "Docs">>

PathDocs == <<"/", "docs">>

PathNoSlash == <<"docs">>

\* tables written before 003_add_path_mapping: every start of the server
\* inserted ROOT_NOTION_PAGE under a new id
LegacyTables ==
  { {},
    { mappingRow(101, RootUrl, <<>>, FALSE) },
    { mappingRow(101, RootUrl, <<>>, FALSE), mappingRow(102, RootUrl, <<>>, FALSE) } }

\* a table written after 003_add_path_mapping
MigratedTable ==
  { mappingRow(101, PageUrl, Slash, TRUE), mappingRow(102, RootUrl, <<>>, FALSE) }

registerBody(notionUrl, hasPath, path, isRoot) ==
  [ notionUrl |-> notionUrl, hasPath |-> hasPath, path |-> path, isRoot |-> isRoot ]

RegisterBodies ==
  { registerBody(<<>>, FALSE, <<>>, FALSE),
    registerBody(RootUrl, FALSE, <<>>, TRUE),
    registerBody(PageUrl, FALSE, <<>>, TRUE),
    registerBody(PageUrl, TRUE, PathDocs, FALSE),
    registerBody(PageUrl, TRUE, PathNoSlash, FALSE),
    registerBody(PageUrl, TRUE, <<>>, FALSE) }

InitRoot ==
  /\ InitEmpty
  /\ asset_cache = {}
  /\ lastPut = [u \in {} |-> Null]
  /\ usingDatabase = TRUE
  /\ \E db \in BOOLEAN, root \in {<<>>, RootUrl} :
       env = [BaseEnv EXCEPT !.DATABASE_URL = db, !.ROOT_NOTION_PAGE = root,
                             !.NOTION_PAGES = <<PageUrl>>]
  /\ boot = [pc |-> "start", i |-> 0]
  /\ \/ /\ url_mappings \in LegacyTables
        /\ migrations = AllMigrations \ {"003_add_path_mapping"}
     \/ /\ url_mappings = MigratedTable
        /\ migrations = AllMigrations

NextRoot ==
  \/ BootStart
  \/ BootMigrate
  \/ BootUnreachable
  \/ BootDiscoverRoot
  \/ BootDiscoverPages
  \/ BootRootDemote
  \/ BootRootPromote
  \/ BootHead
  \/ \E p \in Procs, body \in RegisterBodies : RegisterBegin(p, body)
  \/ \E p \in Procs : RegisterCreate(p)
  \/ \E p \in Procs : RegisterDemote(p)
  \/ \E p \in Procs : RegisterPromote(p)

SpecRoot == InitRoot /\ [][NextRoot]_vars

(***************************************************************************)
(* The resolution specification: two Mappings are registered, in the       *)
(* database or, without one, in the fallback map; GET /p/:id requests      *)
(* arrive concurrently.                                                    *)
(***************************************************************************)
Registered == [i \in {1, 2} |-> IF i = 1 THEN RootUrl ELSE PageUrl]

\* an id nobody registered
UnknownId == 3

PageDoc ==
  document(<< element("script", AssetsPrefix \o <<"x", ".js">>),
              element("a", PageUrl) >>)

PageResponses ==
  { [ kind |-> "ok", status |-> 200, contentType |-> "text/html",
      body |-> PageDoc, headers |-> {} ],
    [ kind |-> "notok", status |-> 404, contentType |-> "null",
      body |-> document(<<>>), headers |-> {} ] }

InitResolve ==
  /\ InitCommon
  /\ asset_cache = {}
  /\ lastPut = [u \in {} |-> Null]
  /\ nanoids = 2
  /\ migrations = AllMigrations
  /\ boot = [pc |-> "ready", i |-> 0]
  /\ \/ /\ usingDatabase = TRUE
        /\ env = [BaseEnv EXCEPT !.DATABASE_URL = TRUE]
        /\ url_mappings = { mappingRow(1, Registered[1], Slash, TRUE),
                            mappingRow(2, Registered[2], <<>>, FALSE) }
        /\ fallbackUrlMap = [i \in {} |-> <<>>]
        /\ headConfig = HeadTable
     \/ /\ usingDatabase = FALSE
        /\ env = BaseEnv
        /\ url_mappings = {}
        /\ fallbackUrlMap = Registered
        /\ headConfig = NoHeadConfig

NextResolve ==
  \/ \E p \in Procs, id \in DOMAIN Registered \cup {UnknownId} : ResolveBegin(p, id)
  \/ \E p \in Procs : MapSelect(p)
  \/ \E p \in Procs : MapUpdate(p)
  \/ \E p \in Procs : Track(p)
  \/ \E p \in Procs : GetDelete(p)
  \/ \E p \in Procs : GetSelect(p)
  \/ \E p \in Procs : GetUpdate(p)
  \/ \E p \in Procs, r \in PageResponses : PageFetch(p, r)
  \/ \E p \in Procs : PagePut(p)

SpecResolve == InitResolve /\ [][NextResolve]_vars

(***************************************************************************)
(* The rewriter specification: without a database, pages are fetched and   *)
(* rewritten on every request; the upstream answers with documents of one  *)
(* or two elements.                                                        *)
(***************************************************************************)
UrlAsset == AssetsPrefix \o <<"x", ".js">>

UrlAnalytics == AssetsPrefix \o <<"analytics", ".js">>

UrlSiteAsset ==
  <<"https://", "x", ".", "notion", ".", "site", "/", "assets", "/", "a", ".css">>

RewriteUrls == {UrlAsset, UrlAnalytics, UrlSiteAsset, UrlS3, UrlEvil, UrlQuery}

Elements == { element(tag, url) : tag \in {"script", "link", "img"}, url \in RewriteUrls }

Docs ==
  { document(<<e>>) : e \in Elements }
  \cup { document(<<element("script", UrlAnalytics), e>>) : e \in Elements }

RewriteResponses ==
  { [ kind |-> "ok", status |-> 200, contentType |-> "text/html",
      body |-> d, headers |-> {} ] : d \in Docs }

InitRewrite ==
  /\ InitCommon
  /\ asset_cache = {}
  /\ lastPut = [u \in {} |-> Null]
  /\ nanoids = 2
  /\ migrations = AllMigrations
  /\ boot = [pc |-> "ready", i |-> 0]
  /\ usingDatabase = FALSE
  /\ env = BaseEnv
  /\ url_mappings = {}
  /\ fallbackUrlMap = Registered
  /\ headConfig = NoHeadConfig

NextRewrite ==
  \/ \E p \in Procs : ResolveBegin(p, 1)
  \/ \E p \in Procs, r \in RewriteResponses : PageFetch(p, r)

SpecRewrite == InitRewrite /\ [][NextRewrite]_vars

(***************************************************************************)
(* The discovery specification: the root page is registered in the         *)
(* database, AUTO_DISCOVER_LINKS is 'true', and the pages the upstream     *)
(* answers with carry anchors to a page that is not registered.            *)
(***************************************************************************)
\* the Docs page as Notion links to it
UrlLinkQuery == PageUrl \o <<"?", "pvs", "=", "4">>

UrlLinkFragment == PageUrl \o <<"#", "top">>

LinkDocs ==
  { document(<<element("a", PageUrl)>>),
    document(<<element("a", UrlLinkQuery)>>),
    document(<<element("a", UrlLinkFragment), element("a", PageUrl)>>),
    document(<<element("img", UrlS3), element("a", UrlEvil)>>) }

LinkResponses ==
  { [ kind |-> "ok", status |-> 200, contentType |-> "text/html",
      body |-> d, headers |-> {} ] : d \in LinkDocs }
  \cup { [ kind |-> "error", status |-> 0, contentType |-> "null",
           body |-> document(<<>>), headers |-> {} ] }

InitDiscover ==
  /\ InitCommon
  /\ asset_cache = {}
  /\ lastPut = [u \in {} |-> Null]
  /\ nanoids = 1
  /\ migrations = AllMigrations
  /\ boot = [pc |-> "ready", i |-> 0]
  /\ usingDatabase = TRUE
  /\ env = [BaseEnv EXCEPT !.DATABASE_URL = TRUE, !.AUTO_DISCOVER_LINKS = TRUE]
  /\ url_mappings = { mappingRow(1, RootUrl, Slash, TRUE) }
  /\ fallbackUrlMap = [i \in {} |-> <<>>]
  /\ headConfig = HeadTable

NextDiscover ==
  \/ \E p \in Procs : ResolveBegin(p, 1)
  \/ \E p \in Procs : EarlierBegin(p, 1)
  \/ \E p \in Procs : MapSelect(p)
  \/ \E p \in Procs : MapUpdate(p)
  \/ \E p \in Procs : Track(p)
  \/ \E p \in Procs : GetDelete(p)
  \/ \E p \in Procs : GetSelect(p)
  \/ \E p \in Procs : GetUpdate(p)
  \/ \E p \in Procs, r \in LinkResponses : PageFetch(p, r)
  \/ \E p \in Procs : PagePut(p)
  \/ \E p \in Procs, r \in LinkResponses : EarlierFetch(p, r)
  \/ \E p \in Procs : DiscoverList(p)
  \/ \E p \in Procs : DiscoverCreate(p)

SpecDiscover == InitDiscover /\ [][NextDiscover]_vars

(***************************************************************************)
(* The /proxy/asset specification: requests with well-formed, malformed,   *)
(* allow-listed and foreign URLs, with and without the database.           *)
(***************************************************************************)
ProxyUrls ==
  {UrlS3, UrlFile, UrlEvil, UrlLookalike, UrlQuery, UrlBadEscape, UrlRelative,
   encodeURIComponent(UrlS3), <<>>}

InitProxy ==
  /\ InitEmpty
  /\ url_mappings = {}
  /\ migrations = AllMigrations
  /\ boot = [pc |-> "ready", i |-> 0]
  /\ asset_cache = {}
  /\ lastPut = [u \in {} |-> Null]
  /\ usingDatabase \in BOOLEAN
  /\ env = [BaseEnv EXCEPT !.DATABASE_URL = TRUE]

NextProxy ==
  \/ \E p \in Procs, url \in ProxyUrls : ProxyAssetBegin(p, url)
  \/ \E p \in Procs : GetDelete(p)
  \/ \E p \in Procs : GetSelect(p)
  \/ \E p \in Procs : GetUpdate(p)
  \/ \E p \in Procs, r \in ProxyResponses : ProxyAssetFetch(p, r)
  \/ \E p \in Procs : ProxyAssetPut(p)

SpecProxy == InitProxy /\ [][NextProxy]_vars

(***************************************************************************)
(* The routes specification: every cacheable route against one store.  Two *)
(* Mappings share a source URL, and one of them is registered under a path *)
(* that ends in an extension of the asset table.                           *)
(***************************************************************************)
PathData == <<"/", "data", ".json">>

PathAppJs == <<"app", ".js">>

RoutePaths == {PathDocs, PathData, <<"/", "list">>, <<"/", "nope">>}

RouteMappings ==
  { mappingRow(1, RootUrl, Slash, TRUE),
    mappingRow(2, PageUrl, PathDocs, FALSE),
    mappingRow(3, PageUrl, PathData, FALSE) }

\* head_configs: two global rows, one row for each of the Mappings 2 and 3
RouteHeadTable ==
  [ globalSnippets |-> <<"g1", "g2">>,
    pageSpecificSnippets |-> [i \in {2, 3} |-> IF i = 2 THEN <<"s2">> ELSE <<"s3">>] ]

RouteResponses ==
  { [ kind |-> "ok", status |-> 200, contentType |-> "text/html",
      body |-> PageDoc, headers |-> {"etag"} ],
    [ kind |-> "notok", status |-> 404, contentType |-> "null",
      body |-> document(<<>>), headers |-> {} ],
    [ kind |-> "error", status |-> 0, contentType |-> "null",
      body |-> document(<<>>), headers |-> {} ] }

\* an upstream that declares the media type with a charset parameter
CharsetResponses ==
  { [ kind |-> "ok", status |-> 200, contentType |-> "text/html; charset=utf-8",
      body |-> PageDoc, headers |-> {"etag"} ] }

InitRoutes ==
  /\ InitCommon
  /\ asset_cache = {}
  /\ lastPut = [u \in {} |-> Null]
  /\ nanoids = 3
  /\ migrations = AllMigrations
  /\ boot = [pc |-> "ready", i |-> 0]
  /\ \/ /\ usingDatabase = TRUE
        /\ env = [BaseEnv EXCEPT !.DATABASE_URL = TRUE]
        /\ url_mappings = RouteMappings
        /\ fallbackUrlMap = [i \in {} |-> <<>>]
        /\ headConfig = RouteHeadTable
     \/ /\ usingDatabase = FALSE
        /\ env = BaseEnv
        /\ url_mappings = {}
        /\ fallbackUrlMap = [i \in {3} |-> PageUrl]
        /\ headConfig = NoHeadConfig

NextRoutes ==
  \/ \E p \in Procs, id \in {3, 4} : ResolveBegin(p, id)
  \/ \E p \in Procs : MapSelect(p)
  \/ \E p \in Procs : MapUpdate(p)
  \/ \E p \in Procs : Track(p)
  \/ \E p \in Procs, path \in RoutePaths : CatchAllBegin(p, path)
  \/ \E p \in Procs : PathSelect(p)
  \/ \E p \in Procs, route \in {"_assets", "assets"} :
       AssetBegin(p, route, <<"/", route, "/">> \o PathAppJs)
  \/ \E p \in Procs : GetDelete(p)
  \/ \E p \in Procs : GetSelect(p)
  \/ \E p \in Procs : GetUpdate(p)
  \/ \E p \in Procs, r \in RouteResponses : PageFetch(p, r)
  \/ \E p \in Procs : PagePut(p)
  \/ \E p \in Procs, r \in RouteResponses \cup CharsetResponses : AssetFetch(p, r)
  \/ \E p \in Procs : AssetPut(p)
  \/ \E p \in Procs, r \in RouteResponses : StaticFetch(p, r)
  \/ \E p \in Procs : StaticPut(p)

SpecRoutes == InitRoutes /\ [][NextRoutes]_vars

(***************************************************************************)
(* The shared-entry specification: the two Mappings of the same store that *)
(* share a source URL, requested by id while the clock advances.           *)
(***************************************************************************)
\* the store of the routes specification, with the database in use
InitShared == InitRoutes /\ usingDatabase = TRUE

NextShared ==
  \/ \E p \in Procs, id \in {2, 3} : ResolveBegin(p, id)
  \/ \E p \in Procs : MapSelect(p)
  \/ \E p \in Procs : MapUpdate(p)
  \/ \E p \in Procs : Track(p)
  \/ \E p \in Procs : GetDelete(p)
  \/ \E p \in Procs : GetSelect(p)
  \/ \E p \in Procs : GetUpdate(p)
  \/ \E p \in Procs, r \in PageResponses : PageFetch(p, r)
  \/ \E p \in Procs : PagePut(p)
  \/ Tick

SpecShared == InitShared /\ [][NextShared]_vars

(***************************************************************************)
(* The cache-clear specification: POST /cache/clear with and without a     *)
(* configured CACHE_ADMIN_KEY, with every combination of header and query  *)
(* key, against a cache that /proxy/asset requests fill.                   *)
(***************************************************************************)
AdminKeys == {"", "k", "x"}

InitClear ==
  /\ InitEmpty
  /\ url_mappings = {}
  /\ migrations = AllMigrations
  /\ boot = [pc |-> "ready", i |-> 0]
  /\ asset_cache = upsertAsset({}, UrlFile, "text/html", "b2", {}, 0)
  /\ lastPut = [u \in {UrlFile} |->
                  [contentType |-> "text/html", content |-> "b2",
                   headers |-> {}, at |-> 0]]
  /\ usingDatabase \in BOOLEAN
  /\ \E k \in {"", "k"} :
       env = [BaseEnv EXCEPT !.DATABASE_URL = TRUE, !.CACHE_ADMIN_KEY = k]

NextClear ==
  \/ \E p \in Procs : ProxyAssetBegin(p, UrlS3)
  \/ \E p \in Procs : GetDelete(p)
  \/ \E p \in Procs : GetSelect(p)
  \/ \E p \in Procs : GetUpdate(p)
  \/ \E p \in Procs, r \in CacheResponses : ProxyAssetFetch(p, r)
  \/ \E p \in Procs : ProxyAssetPut(p)
  \/ \E p \in Procs, headerKey \in AdminKeys, queryKey \in AdminKeys :
       CacheClear(p, headerKey, queryKey)

SpecClear == InitClear /\ [][NextClear]_vars

(***************************************************************************)
(* The statistics specification: GET /cache/stats while /proxy/asset       *)
(* requests fill and read the cache and the clock runs past the expiry of  *)
(* the entries.                                                            *)
(***************************************************************************)
InitStats ==
  /\ InitEmpty
  /\ url_mappings = {}
  /\ migrations = AllMigrations
  /\ boot = [pc |-> "ready", i |-> 0]
  /\ asset_cache = upsertAsset({}, UrlFile, "text/html", "b2", {}, 0)
  /\ lastPut = [u \in {UrlFile} |->
                  [contentType |-> "text/html", content |-> "b2",
                   headers |-> {}, at |-> 0]]
  /\ usingDatabase \in BOOLEAN
  /\ env = [BaseEnv EXCEPT !.DATABASE_URL = TRUE]

NextStats ==
  \/ \E p \in Procs : ProxyAssetBegin(p, UrlS3)
  \/ \E p \in Procs : GetDelete(p)
  \/ \E p \in Procs : GetSelect(p)
  \/ \E p \in Procs : GetUpdate(p)
  \/ \E p \in Procs, r \in CacheResponses : ProxyAssetFetch(p, r)
  \/ \E p \in Procs : ProxyAssetPut(p)
  \/ \E p \in Procs : CacheStats(p)
  \/ Tick

SpecStats == InitStats /\ [][NextStats]_vars

(***************************************************************************)
(* migrations.js: runMigrations and rollbackMigration send each statement  *)
(* with pool.query, which runs it on the client the pool hands out: the    *)
(* idle client released last, or a new one when none is idle.  A client    *)
(* is in autocommit mode unless a BEGIN it ran is still open.  The record  *)
(* boot carries the runner: its position, the clients of the pool and the  *)
(* committed schema; migrations is the committed table of applied ids.     *)
(* Of the statements of an up and of a down the first and the last are     *)
(* kept, as the tokens <<id, 1>> and <<id, 2>>.                            *)
(***************************************************************************)
Clients == {"c1", "c2"}

\* the order of the file names under Array.prototype.sort
rank(id) ==
  IF id = "001_initial_schema" THEN 1 ELSE IF id = "002_add_tracking" THEN 2 ELSE 3

\* files.filter(f => f.endsWith('.js')).sort()
RECURSIVE sort(_)
sort(files) ==
  IF files = {} THEN <<>>
  ELSE LET f == CHOOSE x \in files : \A y \in files : rank(x) <= rank(y)
       IN <<f>> \o sort(files \ {f})

migrationFiles == sort(AllMigrations)

NoTxn == [open |-> FALSE, ops |-> <<>>, at |-> 0]

\* the committed database
database == [ table |-> boot.table, schema |-> boot.schema,
              ids |-> migrations, at |-> boot.at ]

\* one statement applied to the database
apply(db, op) ==
  IF op.kind = "table" THEN [db EXCEPT !.table = TRUE]
  ELSE IF op.kind = "add" THEN [db EXCEPT !.schema = @ \cup {op.arg}]
  ELSE IF op.kind = "drop" THEN [db EXCEPT !.schema = @ \ {op.arg}]
  ELSE IF op.kind = "insert"
  THEN [db EXCEPT !.ids = @ \cup {op.arg[1]},
                  !.at = [i \in DOMAIN @ \cup {op.arg[1]} |->
                            IF i = op.arg[1] THEN op.at ELSE @[i]]]
  ELSE IF op.kind = "delete"
  THEN [db EXCEPT !.ids = @ \ {op.arg[1]},
                  !.at = [i \in DOMAIN @ \ {op.arg[1]} |-> @[i]]]
  ELSE db

RECURSIVE applyAll(_, _)
applyAll(db, ops) ==
  IF ops = <<>> THEN db ELSE applyAll(apply(db, Head(ops)), Tail(ops))

\* pool.query: the client that runs the next statement
client ==
  IF boot.idle # <<>> THEN boot.idle[Len(boot.idle)]
  ELSE CHOOSE c \in Clients : c \notin boot.held

\* what the statement of the client reads: the committed database and the
\* writes of its own open transaction
visible ==
  IF boot.txn[client].open THEN applyAll(database, boot.txn[client].ops)
  ELSE database

\* a write waits for the lock of the open transaction of another client
\* that wrote the same table, index or row
blocked(kind, op) ==
  /\ kind = "write"
  /\ \E c \in Clients \ {client} :
       /\ boot.txn[c].open
       /\ \E n \in 1..Len(boot.txn[c].ops) : boot.txn[c].ops[n].arg = op.arg

\* pool.query(statement): what the statement leaves in the clients and in
\* the committed database.  CURRENT_TIMESTAMP is the start of the open
\* transaction of the client, or the time of the statement.
query(kind, op) ==
  LET c == client
      t == boot.txn[c]
  IN IF kind = "BEGIN"
     THEN [ txn |-> IF t.open THEN boot.txn
                    ELSE [boot.txn EXCEPT ![c] =
                            [open |-> TRUE, ops |-> <<>>, at |-> boot.clock]],
            db |-> database ]
     ELSE IF kind = "COMMIT"
     THEN [ txn |-> [boot.txn EXCEPT ![c] = NoTxn],
            db |-> IF t.open THEN applyAll(database, t.ops) ELSE database ]
     ELSE IF kind = "ROLLBACK"
     THEN [ txn |-> [boot.txn EXCEPT ![c] = NoTxn], db |-> database ]
     ELSE IF t.open
     THEN [ txn |-> [boot.txn EXCEPT ![c].ops = Append(@, [op EXCEPT !.at = t.at])],
            db |-> database ]
     ELSE [ txn |-> boot.txn, db |-> apply(database, [op EXCEPT !.at = boot.clock]) ]

\* the runner after the statement: the client goes back on top of the idle ones
executed(kind, op) ==
  LET q == query(kind, op)
  IN [boot EXCEPT !.txn = q.txn, !.table = q.db.table, !.schema = q.db.schema,
                  !.at = q.db.at,
                  !.idle = IF boot.idle # <<>> THEN boot.idle ELSE <<client>>,
                  !.clock = IF kind = "BEGIN" \/ op.kind = "insert" THEN @ + 1 ELSE @]

stored(kind, op) ==
  /\ ~ blocked(kind, op)
  /\ migrations' = query(kind, op).db.ids

statement(kind, arg) == [kind |-> kind, arg |-> arg, at |-> 0]

migrationVars ==
  <<now, usingDatabase, asset_cache, pc, req, loc, res, lastPut, env,
    url_mappings, fallbackUrlMap, nanoids, tracking, resolved, headConfig>>

\* the migration the loop of runMigrations turns to from index i on
pending(i, done) ==
  { k \in i..Len(migrationFiles) : migrationFiles[k] \notin done }

\* for (const file of migrationFiles): on to BEGIN, or return migrationsRun
loop(b, i, done) ==
  IF pending(i, done) = {}
  THEN [b EXCEPT !.pc = "returned", !.result = b.migrationsRun]
  ELSE [b EXCEPT !.pc = "begin",
                 !.i = CHOOSE k \in pending(i, done) :
                         \A j \in pending(i, done) : k <= j]

migrationId == migrationFiles[boot.i]

\* node migrate.js up, initDatabase(): runMigrations is called;
\* node migrate.js rollback: rollbackMigration is called without an id.
\* Each is a new process with a new Pool: the connections of the process
\* before are closed, which rolls their open transactions back.
Command(cmd) ==
  /\ boot.pc \in {"idle", "returned", "threw"}
  /\ started < MaxRequests
  /\ started' = started + 1
  /\ boot' = [boot EXCEPT !.pc = IF cmd = "up" THEN "create" ELSE "last",
                          !.cmd = cmd, !.i = 0, !.migrationsRun = 0,
                          !.result = "none", !.idle = <<>>, !.held = {},
                          !.txn = [c \in Clients |-> NoTxn]]
  /\ UNCHANGED <<migrations, migrationVars>>

\* CREATE TABLE IF NOT EXISTS migrations
RunCreate ==
  /\ boot.pc = "create"
  /\ boot' = [executed("write", statement("table", <<"migrations", 0>>)) EXCEPT !.pc = "select"]
  /\ stored("write", statement("table", <<"migrations", 0>>))
  /\ UNCHANGED <<started, migrationVars>>

\* SELECT id FROM migrations, and the loop up to the first pending file
RunSelect ==
  /\ boot.pc = "select"
  /\ IF visible.table
     THEN boot' = loop([executed("read", statement("read", <<"migrations", 0>>))
                          EXCEPT !.applied = visible.ids], 1, visible.ids)
     ELSE boot' = [executed("read", statement("read", <<"migrations", 0>>))
                     EXCEPT !.pc = "threw", !.result = "error"]
  /\ UNCHANGED <<migrations, started, migrationVars>>

\* await pool.query('BEGIN')
RunBegin ==
  /\ boot.pc = "begin"
  /\ boot' = [executed("BEGIN", statement("BEGIN", <<"", 0>>))
                EXCEPT !.pc = "up1", !.before = database]
  /\ UNCHANGED <<migrations, started, migrationVars>>

\* await migration.up(pool): its first statement (k = 1), its last (k = 2)
RunUp(k) ==
  /\ boot.pc = (IF k = 1 THEN "up1" ELSE "up2")
  /\ boot' = [executed("write", statement("add", <<migrationId, k>>))
                EXCEPT !.pc = IF k = 1 THEN "up2" ELSE "insert"]
  /\ stored("write", statement("add", <<migrationId, k>>))
  /\ UNCHANGED <<started, migrationVars>>

\* INSERT INTO migrations (id) VALUES ($1)
RunInsert ==
  /\ boot.pc = "insert"
  /\ migrationId \notin visible.ids
  /\ boot' = [executed("write", statement("insert", <<migrationId, 0>>)) EXCEPT !.pc = "commit"]
  /\ stored("write", statement("insert", <<migrationId, 0>>))
  /\ UNCHANGED <<started, migrationVars>>

\* await pool.query('COMMIT'); migrationsRun++; and the loop to the next file
RunCommit ==
  /\ boot.pc = "commit"
  /\ boot' = loop([executed("COMMIT", statement("COMMIT", <<"", 0>>))
                     EXCEPT !.migrationsRun = @ + 1], boot.i + 1, boot.applied)
  /\ stored("COMMIT", statement("COMMIT", <<"", 0>>))
  /\ UNCHANGED <<started, migrationVars>>

\* the last statement of up, or the INSERT (as it does for an id that is
\* in the table: id is the primary key), throws: the statement changes
\* nothing, the inner catch is entered
RunFails ==
  /\ boot.pc \in {"up2", "insert"}
  /\ boot' = [executed("read", statement("read", <<"migrations", 0>>)) EXCEPT !.pc = "rollback"]
  /\ UNCHANGED <<migrations, started, migrationVars>>

\* await pool.query('ROLLBACK'); throw new Error(`Migration ${migrationId} failed: ...`)
RunRollback ==
  /\ boot.pc = "rollback"
  /\ boot' = [executed("ROLLBACK", statement("ROLLBACK", <<"", 0>>))
                EXCEPT !.pc = "threw", !.result = migrationId]
  /\ UNCHANGED <<migrations, started, migrationVars>>

\* SELECT id FROM migrations ORDER BY applied_at DESC LIMIT 1
lastApplied ==
  CHOOSE id \in visible.ids : \A other \in visible.ids : visible.at[other] <= visible.at[id]

RollbackLast ==
  /\ boot.pc = "last"
  /\ boot' =
       IF ~ visible.table
       THEN [executed("read", statement("read", <<"migrations", 0>>)) EXCEPT !.pc = "threw", !.result = "error"]
       ELSE IF visible.ids = {}
       THEN [executed("read", statement("read", <<"migrations", 0>>)) EXCEPT !.pc = "returned", !.result = "null"]
       ELSE [executed("read", statement("read", <<"migrations", 0>>))
               EXCEPT !.pc = "rb_begin",
                      !.i = CHOOSE k \in 1..Len(migrationFiles) :
                              migrationFiles[k] = lastApplied]
  /\ UNCHANGED <<migrations, started, migrationVars>>

RollbackBegin ==
  /\ boot.pc = "rb_begin"
  /\ boot' = [executed("BEGIN", statement("BEGIN", <<"", 0>>)) EXCEPT !.pc = "down1"]
  /\ UNCHANGED <<migrations, started, migrationVars>>

\* await migration.down(pool): it undoes the last statement of up (k = 2),
\* then the first (k = 1)
RollbackDown(k) ==
  /\ boot.pc = (IF k = 2 THEN "down1" ELSE "down2")
  /\ boot' = [executed("write", statement("drop", <<migrationId, k>>))
                EXCEPT !.pc = IF k = 2 THEN "down2" ELSE "delete"]
  /\ stored("write", statement("drop", <<migrationId, k>>))
  /\ UNCHANGED <<started, migrationVars>>

\* DELETE FROM migrations WHERE id = $1
RollbackDelete ==
  /\ boot.pc = "delete"
  /\ boot' = [executed("write", statement("delete", <<migrationId, 0>>)) EXCEPT !.pc = "rb_commit"]
  /\ stored("write", statement("delete", <<migrationId, 0>>))
  /\ UNCHANGED <<started, migrationVars>>

\* await pool.query('COMMIT'); return migrationId
RollbackCommit ==
  /\ boot.pc = "rb_commit"
  /\ boot' = [executed("COMMIT", statement("COMMIT", <<"", 0>>))
                EXCEPT !.pc = "returned", !.result = migrationId]
  /\ stored("COMMIT", statement("COMMIT", <<"", 0>>))
  /\ UNCHANGED <<started, migrationVars>>

\* getMigrationStatus(pool)
getMigrationStatus ==
  IF ~ visible.table
  THEN [initialized |-> FALSE, applied |-> {}, pending |-> {}]
  ELSE [initialized |-> TRUE, applied |-> visible.ids,
        pending |-> AllMigrations \ visible.ids]

\* a request handler of the server sends a statement through the pool of
\* initDatabase (getMapping, getCachedAsset, ...): it takes a client.  The
\* pool of migrate.js, the only caller of rollbackMigration, has no other user.
PoolAcquire ==
  /\ boot.held = {}
  /\ boot.cmd = "up"
  /\ boot.pc \notin {"idle", "returned", "threw"}
  /\ started < MaxRequests
  /\ started' = started + 1
  /\ boot' = [boot EXCEPT !.held = {client},
                          !.idle = IF boot.idle # <<>>
                                   THEN SubSeq(boot.idle, 1, Len(boot.idle) - 1)
                                   ELSE <<>>]
  /\ UNCHANGED <<migrations, migrationVars>>

\* its statement is done: the client is idle again
PoolRelease ==
  /\ boot.held # {}
  /\ boot' = [boot EXCEPT !.held = {},
                          !.idle = Append(boot.idle, CHOOSE c \in boot.held : TRUE)]
  /\ UNCHANGED <<migrations, started, migrationVars>>

(***************************************************************************)
(* The migration specification: runMigrations and rollbackMigration        *)
(* against a database that is new or holds the first migrations, while     *)
(* request handlers may use the pool.                                      *)
(***************************************************************************)
tokens(ids) == { <<id, k>> : id \in ids, k \in {1, 2} }

InitMigrate ==
  /\ InitEmpty
  /\ asset_cache = {}
  /\ lastPut = [u \in {} |-> Null]
  /\ usingDatabase = TRUE
  /\ env = [BaseEnv EXCEPT !.DATABASE_URL = TRUE]
  /\ url_mappings = {}
  /\ \E n \in 0..2, t \in BOOLEAN :
       /\ migrations = { migrationFiles[k] : k \in 1..n }
       /\ boot = [ pc |-> "idle", i |-> 0, cmd |-> "none", applied |-> {},
                   migrationsRun |-> 0, result |-> "none",
                   idle |-> <<>>, held |-> {},
                   txn |-> [c \in Clients |-> NoTxn],
                   table |-> t \/ n > 0,
                   schema |-> tokens({ migrationFiles[k] : k \in 1..n }),
                   at |-> [id \in { migrationFiles[k] : k \in 1..n } |-> rank(id) - 3],
                   clock |-> 0,
                   before |-> [ table |-> t \/ n > 0,
                                schema |-> tokens({ migrationFiles[k] : k \in 1..n }),
                                ids |-> { migrationFiles[k] : k \in 1..n },
                                at |-> [id \in { migrationFiles[k] : k \in 1..n } |->
                                          rank(id) - 3] ] ]

NextMigrate ==
  \/ \E cmd \in {"up", "rollback"} : Command(cmd)
  \/ RunCreate
  \/ RunSelect
  \/ RunBegin
  \/ \E k \in {1, 2} : RunUp(k)
  \/ RunInsert
  \/ RunCommit
  \/ RunFails
  \/ RunRollback
  \/ RollbackLast
  \/ RollbackBegin
  \/ \E k \in {1, 2} : RollbackDown(k)
  \/ RollbackDelete
  \/ RollbackCommit
  \/ PoolAcquire
  \/ PoolRelease

SpecMigrate == InitMigrate /\ [][NextMigrate]_vars

(***************************************************************************)
(* The store-error specification: pages by id and /_assets requests while  *)
(* any statement sent to the store may throw.                              *)
(***************************************************************************)
NextFaults ==
  \/ \E p \in Procs : ResolveBegin(p, 3)
  \/ \E p \in Procs : MapSelect(p)
  \/ \E p \in Procs : MapUpdate(p)
  \/ \E p \in Procs : Track(p)
  \/ \E p \in Procs : AssetBegin(p, "_assets", <<"/", "_assets", "/">> \o PathAppJs)
  \/ \E p \in Procs : GetDelete(p)
  \/ \E p \in Procs : GetSelect(p)
  \/ \E p \in Procs : GetUpdate(p)
  \/ \E p \in Procs, r \in PageResponses : PageFetch(p, r)
  \/ \E p \in Procs : PagePut(p)
  \/ \E p \in Procs, r \in PageResponses : AssetFetch(p, r)
  \/ \E p \in Procs : AssetPut(p)
  \/ \E p \in Procs : GetThrows(p)
  \/ \E p \in Procs : MapThrows(p)
  \/ \E p \in Procs : TrackThrows(p)
  \/ \E p \in Procs : PutThrows(p)

SpecFaults == InitShared /\ [][NextFaults]_vars

(***************************************************************************)
(* C1.  A read never returns an entry past its expiry: whenever            *)
(* getCachedAsset has returned an entry, that entry's expires_at was later *)
(* than the time of the read, under every interleaving of reads, writes,   *)
(* clears and clock ticks.                                                 *)
(***************************************************************************)
C1_ReadNeverExpired ==
  \A p \in Procs :
    loc[p].cached # Null => loc[p].cached.expires_at > loc[p].readAt

\* a read at the very instant of expiry found the row still stored and
\* reported it absent
C1_Witness ==
  \E p \in Procs :
    /\ loc[p].read /\ loc[p].cached = Null
    /\ \E r \in asset_cache :
         r.url = loc[p].assetUrl /\ r.expires_at = loc[p].readAt /\ now = loc[p].readAt

(***************************************************************************)
(* C2.  A read of url made after a completed put of url, with no put of    *)
(* url and no clear in between, returns the payload and content type of    *)
(* that put when less than TTL minutes have passed since the put, and      *)
(* returns absent when TTL minutes or more have passed.                    *)
(***************************************************************************)
C2_ReadAfterPut ==
  \A p \in Procs :
    LET put == loc[p].lastPutAtRead
    IN (loc[p].read /\ put # Null) =>
         IF loc[p].readAt < put.at + TTL
         THEN /\ loc[p].cached # Null
              /\ loc[p].cached.content = put.content
              /\ loc[p].cached.contentType = put.contentType
         ELSE loc[p].cached = Null

\* a read strictly inside the TTL of an entry that had been overwritten
\* after its first TTL had started, and a read after the TTL
C2_Witness ==
  /\ \E p \in Procs :
       /\ loc[p].read /\ loc[p].lastPutAtRead # Null
       /\ loc[p].cached # Null
       /\ loc[p].lastPutAtRead.at > 0
       /\ loc[p].readAt > loc[p].lastPutAtRead.at
  /\ \E q \in Procs :
       /\ loc[q].read /\ loc[q].lastPutAtRead # Null
       /\ loc[q].cached = Null

(***************************************************************************)
(* C3.  After a clear, a read of any url returns absent until that url is  *)
(* put again, and the count the clear reports is the number of rows it     *)
(* removed.                                                                *)
(***************************************************************************)
C3_ClearThenAbsent ==
  \A p \in Procs :
    /\ (loc[p].read /\ loc[p].lastPutAtRead = Null) => loc[p].cached = Null
    /\ (pc[p] = "done" /\ req[p].route = "cache_clear" /\ res[p].status = 200 /\ usingDatabase)
         => res[p].entriesCleared = loc[p].deleted

\* a clear removed two live entries and a later read of one of them in the
\* same minute found nothing
C3_Witness ==
  \E p, q \in Procs :
    /\ pc[p] = "done" /\ req[p].route = "cache_clear" /\ res[p].entriesCleared = 2
    /\ loc[q].read /\ loc[q].cached = Null /\ loc[q].assetUrl \in DOMAIN lastPut
    /\ loc[q].lastPutAtRead = Null

(***************************************************************************)
(* The allow-list as the specification words it: the hostname ends with    *)
(* one of the allow-listed domains.                                        *)
(***************************************************************************)
hostOnAllowList(host) == \E domain \in allowedDomains : endsWith(host, domain)

\* the request's url parameter decodes and parses as an absolute URL
urlParses(p) ==
  /\ req[p] # Null
  /\ req[p].route = "proxy_asset"
  /\ req[p].url # <<>>
  /\ ~ decodeThrows(req[p].url)
  /\ ~ urlThrows(decodeURIComponent(req[p].url))

requestHost(p) == hostname(decodeURIComponent(req[p].url))

(***************************************************************************)
(* C6.  A /proxy/asset request whose URL has a host that is not on the     *)
(* allow-list is answered 403 at once: it reads no cache entry, makes no   *)
(* upstream fetch and writes no cache entry.                               *)
(***************************************************************************)
C6_ForbiddenBeforeFetch ==
  \A p \in Procs :
    (urlParses(p) /\ ~ hostOnAllowList(requestHost(p))) =>
      /\ loc[p].fetched = 0
      /\ ~ loc[p].read
      /\ ~ loc[p].wrote
      /\ pc[p] = "done" => res[p].status = 403

(***************************************************************************)
(* C7.  The allow-list is a host-suffix check: a /proxy/asset request      *)
(* gets past the check only when its hostname ends with an allow-listed    *)
(* domain, every other hostname is answered 403.                           *)
(***************************************************************************)
C7_HostSuffixAllowList ==
  \A p \in Procs :
    urlParses(p) =>
      \/ hostOnAllowList(requestHost(p))
      \/ pc[p] = "done" /\ res[p].status = 403 /\ loc[p] = NoLoc

(***************************************************************************)
(* C5: in every reachable state at most one Mapping has is_root = TRUE,    *)
(* whatever the interleaving of the 003 migration, the root assignment of  *)
(* initialize() and POST /register requests with isRoot.                   *)
(***************************************************************************)
roots == { r \in url_mappings : r.is_root }

isRegister(r) == r # Null /\ r.route = "register"

noLeadingSlash(body) == body.hasPath /\ ~ startsWith(body.path, Slash)

\* p takes the step
stepOf(p) == pc'[p] # pc[p] \/ res'[p] # res[p] \/ loc'[p] # loc[p] \/ req'[p] # req[p]

storeChanges == url_mappings' # url_mappings \/ fallbackUrlMap' # fallbackUrlMap

\* the requests the statement of the spec calls bad
badAsStated(r) ==
  isRegister(r) /\ (~ truthy(r.body.notionUrl) \/ noLeadingSlash(r.body))

C8_BadRegisterRejected ==
  /\ [](\A p \in Procs :
          (pc[p] = "done" /\ badAsStated(req[p])) => status(p) = 400)
  /\ [][\A p \in Procs :
          (stepOf(p) /\ badAsStated(req'[p])) => ~ storeChanges]_vars

(***************************************************************************)
(* C4: resolving a registered Mapping by its id returns the url it was     *)
(* registered with, and every successful resolution adds one to that       *)
(* Mapping's accessCount, so the accessCount of a Mapping is the number of *)
(* its successful resolutions, also when resolutions are concurrent.       *)
(***************************************************************************)
\* the accessCount GET /list reports for id; its fallback entries carry none
accessCount(id) ==
  IF \E r \in url_mappings : r.id = id
  THEN (CHOOSE r \in url_mappings : r.id = id).access_count
  ELSE 0

returnsRegisteredUrl ==
  \A p \in Procs :
    (req[p] # Null /\ req[p].route = "page" /\ truthy(loc[p].notionUrl)) =>
       /\ req[p].id \in DOMAIN Registered
       /\ loc[p].notionUrl = Registered[req[p].id]

C4_ResolveCounts ==
  /\ returnsRegisteredUrl
  /\ \A id \in DOMAIN Registered : accessCount(id) = count(resolved, id)

\* with the database the count is exact, whatever the interleaving
ResolveCountsWithDatabase ==
  usingDatabase =>
    /\ returnsRegisteredUrl
    /\ \A id \in DOMAIN Registered : accessCount(id) = count(resolved, id)

(***************************************************************************)
(* C9: in a rendered page, a script src or link href of the form           *)
(* https://www.notion.so/_assets/<p> has become /_assets/<p>, an img src   *)
(* on an amazonaws.com host has become /proxy/asset?url=<percent-encoded   *)
(* original>, and a reference on a host that is neither upstream nor       *)
(* allow-listed is as it was.  Scripts the rewriter removes as analytics   *)
(* are not counted.                                                        *)
(***************************************************************************)
rendered(p) ==
  /\ pc[p] = "done" /\ req[p] # Null /\ req[p].route = "page"
  /\ status(p) = 200 /\ res[p].xcache = "MISS"

rewrittenAsStated(e, o) ==
  /\ o.tag = e.tag
  /\ (e.tag \in {"script", "link"} /\ startsWith(e.url, AssetsPrefix)) =>
        o.url = <<"/", "_assets", "/">> \o SubSeq(e.url, Len(AssetsPrefix) + 1, Len(e.url))
  /\ (e.tag = "img" /\ ~ urlThrows(e.url) /\ endsWith(hostname(e.url), AmazonAws)) =>
        o.url = <<"/proxy/asset?url=">> \o encodeURIComponent(e.url)
  /\ (~ urlThrows(e.url) /\ ~ hostOnAllowList(hostname(e.url))) => o.url = e.url

C9_RewriteRules ==
  \A p \in Procs :
    rendered(p) =>
      LET kept == SelectSeq(loc[p].html.elems, keptElement)
          out == res[p].body.elems
      IN /\ Len(out) = Len(kept)
         /\ \A i \in 1..Len(kept) : rewrittenAsStated(kept[i], out[i])

(***************************************************************************)
(* C10: with AUTO_DISCOVER_LINKS on, once a page is rendered from the      *)
(* upstream, every anchor of it to an upstream page that was not           *)
(* registered has a Mapping whose notion_url is the link without query and *)
(* fragment, and the anchor in the returned HTML has href /p/<id> of such  *)
(* a Mapping.                                                              *)
(***************************************************************************)
renderedFromUpstream(p) ==
  /\ pc[p] = "done" /\ req[p] # Null /\ req[p].route \in {"page", "page_earlier"}
  /\ status(p) = 200 /\ res[p].xcache # "HIT"
  /\ loc[p].html # Null

strippedLink(url) == SubSeq(url, 1, indexOfAny(url, {"?", "#"}, 1) - 1)

upstreamPage(e) ==
  /\ e.tag = "a" /\ ~ urlThrows(e.url)
  /\ (endsWith(hostname(e.url), NotionSo) \/ endsWith(hostname(e.url), NotionSite))

C10_LinksDiscovered ==
  \A p \in Procs :
    renderedFromUpstream(p) =>
      LET html == loc[p].html.elems
          out == res[p].body.elems
      IN /\ Len(out) = Len(html)
         /\ \A i \in 1..Len(html) :
              (upstreamPage(html[i]) /\ strippedLink(html[i].url) # RootUrl) =>
                 \E m \in url_mappings :
                   /\ m.notion_url = strippedLink(html[i].url)
                   /\ out[i] = element("a", <<"/", "p", "/", m.id>>)

(***************************************************************************)
(* C11.  Every response to a cacheable request that got as far as the      *)
(* cache or the upstream (a page by id or by path, /_assets, /assets,      *)
(* /proxy/asset, a static asset of the catch-all) carries X-Cache HIT or   *)
(* MISS: HIT exactly when the body came from an entry getCachedAsset       *)
(* returned and the request fetched nothing, MISS exactly when the request *)
(* fetched from the upstream.                                              *)
(***************************************************************************)
CacheableRoutes == {"page", "path", "static", "_assets", "assets", "proxy_asset"}

answered(p) ==
  /\ pc[p] = "done" /\ req[p] # Null /\ req[p].route \in CacheableRoutes
  /\ loc[p].assetUrl # <<>>

C11_XCacheOnEveryResponse ==
  \A p \in Procs :
    answered(p) =>
      /\ res[p].xcache \in {"HIT", "MISS"}
      /\ res[p].xcache = "HIT" <=> (loc[p].cached # Null /\ loc[p].fetched = 0)
      /\ res[p].xcache = "MISS" <=> loc[p].fetched > 0

(***************************************************************************)
(* C12.  An exact path Mapping is tried before the extension table: a      *)
(* catch-all request whose path is registered in the Mapping Store goes to *)
(* that Mapping's source URL, also when the path ends in an extension of   *)
(* the asset table.                                                        *)
(***************************************************************************)
C12_PathBeforeExtension ==
  \A p \in Procs :
    ( /\ req[p] # Null /\ req[p].route \in {"path", "static"}
      /\ usingDatabase
      /\ loc[p].assetUrl # <<>> )
    => \A r \in url_mappings :
         r.path = req[p].url => loc[p].assetUrl = r.notion_url

(***************************************************************************)
(* C13.  A request fetches from the upstream at most once, and when the    *)
(* upstream answered with a status outside 200..299 the client gets that   *)
(* same status and the request has written nothing to the Cache Store.     *)
(***************************************************************************)
non2xx(code) == code # 0 /\ ~ (code \in 200..299)

C13_FailureMirroredOnce ==
  \A p \in Procs :
    /\ loc[p].fetched <= 1
    /\ (pc[p] = "done" /\ non2xx(loc[p].upstream)) =>
         /\ res[p].status = loc[p].upstream
         /\ ~ loc[p].wrote

\* with the database in use the upstream answered 404 after a cache miss: the
\* client got 404 and the store is still empty
C13_Witness ==
  \E p \in Procs :
    /\ usingDatabase /\ loc[p].read
    /\ pc[p] = "done" /\ loc[p].upstream = 404 /\ res[p].status = 404
    /\ loc[p].fetched = 1 /\ asset_cache = {}

(***************************************************************************)
(* C14.  A store error never fails a request.  An error in a cache lookup  *)
(* makes the request go on as a miss, to the upstream; an error in a       *)
(* Mapping lookup makes it answer 404; an error in the cache write or the  *)
(* tracking write is ignored, and a request whose upstream answered 200    *)
(* still sends the content with status 200.                                *)
(***************************************************************************)
C14_StoreErrorsDegrade ==
  \A p \in Procs :
    (pc[p] = "done" /\ loc[p].threw # {}) =>
      /\ res[p] # Null
      /\ "get" \in loc[p].threw => (loc[p].cached = Null /\ loc[p].fetched = 1)
      /\ "map" \in loc[p].threw => (res[p].status = 404 /\ loc[p].fetched = 0)
      /\ loc[p].upstream = 200 =>
           (res[p].status = 200 /\ res[p].xcache = "MISS" /\ res[p].body = loc[p].content)
      /\ "map" \notin loc[p].threw =>
           res[p].status = IF loc[p].cached # Null THEN 200
                           ELSE IF loc[p].upstream = 0 THEN 500
                           ELSE loc[p].upstream

\* a request whose cache lookup and cache write both threw sent the content
C14_Witness ==
  \E p \in Procs :
    /\ pc[p] = "done" /\ {"get", "put"} \subseteq loc[p].threw
    /\ res[p].status = 200 /\ res[p].body = loc[p].content

(***************************************************************************)
(* C15.  When initialize() fails on the store, usingDatabase is false from *)
(* then on: no step sets it back to true, and no request enters a store    *)
(* statement while it is false.                                            *)
(***************************************************************************)
StorePcs ==
  { "create", "root_demote", "root_promote", "map_select", "map_update", "track",
    "path_select", "get_delete", "get_select", "get_update", "put",
    "discover_list", "discover_create" }

C15_FallbackIsPermanent ==
  /\ [](boot.pc = "failed" => ~ usingDatabase)
  /\ [][~ usingDatabase => ~ usingDatabase']_vars
  /\ [][\A p \in Procs :
          (~ usingDatabase /\ pc'[p] \in StorePcs) => pc[p] \in StorePcs]_vars

\* the store was unreachable, and a registration that arrived afterwards was
\* kept in memory
C15_Witness ==
  /\ boot.pc = "failed" /\ migrations = AllMigrations /\ ~ usingDatabase
  /\ \E p \in Procs :
       /\ pc[p] = "done" /\ req[p].route = "register" /\ status(p) = 200
       /\ loc[p].newId \in DOMAIN fallbackUrlMap

(***************************************************************************)
(* C16.  Under every interleaving of requests that miss the cache for the  *)
(* same URL, each request whose fetch succeeded answers 200 with what it   *)
(* fetched, the store holds at most one row per url, and that row's        *)
(* content, content type and headers are those of the write applied last.  *)
(***************************************************************************)
C16_LastWriteWins ==
  /\ \A r1, r2 \in asset_cache : r1.url = r2.url => r1 = r2
  /\ \A r \in asset_cache :
       /\ r.url \in DOMAIN lastPut /\ lastPut[r.url] # Null
       /\ r.content = lastPut[r.url].content
       /\ r.content_type = lastPut[r.url].contentType
       /\ r.headers = lastPut[r.url].headers
  /\ \A p \in Procs :
       (pc[p] = "done" /\ loc[p].upstream = 200) =>
         (res[p].status = 200 /\ res[p].body = loc[p].content)

\* both requests missed, fetched different answers for the same URL and wrote
C16_Witness ==
  /\ \A p \in Procs :
       /\ pc[p] = "done" /\ loc[p].read /\ loc[p].cached = Null
       /\ loc[p].fetched = 1 /\ loc[p].wrote /\ res[p].status = 200
       /\ loc[p].assetUrl = UrlS3
  /\ loc["p1"].content # loc["p2"].content
  /\ loc["p1"].headers # loc["p2"].headers
  /\ Cardinality({r \in asset_cache : r.url = UrlS3}) = 1

(***************************************************************************)
(* C17.  Creating a Mapping is idempotent in the source URL: however often *)
(* and however concurrently a Mapping is created for one source URL, the   *)
(* Mapping Store holds one row for it, as after creating it once.          *)
(***************************************************************************)
C17_CreateIdempotent ==
  \A r1, r2 \in url_mappings : r1.notion_url = r2.notion_url => r1.id = r2.id

(***************************************************************************)
(* C18.  setCachedAsset restarts the TTL: in every reachable state every   *)
(* row of asset_cache has expires_at = cached_at + TTL, its cached_at is   *)
(* the time of the last setCachedAsset for its url, whether that inserted  *)
(* or overwrote the row, and no two rows have the same url.                *)
(***************************************************************************)
C18_PutRestartsTtl ==
  /\ \A r \in asset_cache :
       /\ r.expires_at = r.cached_at + TTL
       /\ (r.url \in DOMAIN lastPut /\ lastPut[r.url] # Null) =>
            r.cached_at = lastPut[r.url].at
  /\ \A r1, r2 \in asset_cache : r1.url = r2.url => r1 = r2

\* a row that was read as a hit and later overwritten by a write at a later
\* time, by requests that had both missed
C18_Witness ==
  /\ \E r \in asset_cache :
       /\ r.url = UrlS3 /\ r.cached_at > 0 /\ r.hit_count > 0
       /\ r.expires_at = r.cached_at + TTL
  /\ \A p \in Procs : pc[p] = "done" /\ loc[p].wrote /\ loc[p].assetUrl = UrlS3
  /\ loc["p1"].readAt < loc["p2"].readAt

(***************************************************************************)
(* C19.  The cache is keyed by the source URL alone: a page request reads  *)
(* and writes the entry of its Mapping's source URL, whatever the id, and  *)
(* when that entry was last written less than the TTL before the read, by  *)
(* a request through any Mapping, the request is a HIT with the written    *)
(* content and fetches nothing.                                            *)
(***************************************************************************)
C19_SharedEntry ==
  \A p \in Procs :
    (req[p] # Null /\ req[p].route = "page" /\ loc[p].read) =>
      LET put == loc[p].lastPutAtRead
      IN /\ loc[p].assetUrl = loc[p].notionUrl
         /\ (put # Null /\ loc[p].readAt < put.at + TTL) =>
              /\ loc[p].cached # Null
              /\ loc[p].cached.content = put.content
              /\ loc[p].fetched = 0
              /\ pc[p] = "done" =>
                   (res[p].xcache = "HIT" /\ res[p].body = put.content)

\* /p/2 missed, fetched and wrote; /p/3, another Mapping of the same source
\* URL, was served that entry later within the TTL
C19_Witness ==
  \E p, q \in Procs :
    /\ pc[p] = "done" /\ req[p].id = 2 /\ loc[p].wrote /\ loc[p].fetched = 1
    /\ pc[q] = "done" /\ req[q].id = 3 /\ res[q].xcache = "HIT" /\ loc[q].fetched = 0
    /\ loc[q].notionUrl = loc[p].notionUrl
    /\ loc[q].lastPutAtRead # Null
    /\ loc[q].lastPutAtRead.content = loc[p].content
    /\ loc[q].readAt > loc[q].lastPutAtRead.at

(***************************************************************************)
(* C20.  With CACHE_ADMIN_KEY configured, a POST /cache/clear whose        *)
(* x-admin-key header and key query parameter both differ from it is       *)
(* answered 401 and removes no row; a clear removes rows or answers "Cache *)
(* cleared" only when no key is configured or the key it provided, the     *)
(* header if there is one and else the query parameter, is the configured  *)
(* key.                                                                    *)
(***************************************************************************)
isClear(p) == pc[p] = "done" /\ req[p] # Null /\ req[p].route = "cache_clear"

C20_ClearNeedsKey ==
  \A p \in Procs :
    isClear(p) =>
      LET adminKey == env.CACHE_ADMIN_KEY
          given == IF req[p].headerKey # "" THEN req[p].headerKey ELSE req[p].queryKey
      IN /\ (adminKey # "" /\ req[p].headerKey # adminKey /\ req[p].queryKey # adminKey)
              => (res[p].status = 401 /\ loc[p].deleted = 0)
         /\ (loc[p].deleted > 0 \/ res[p].body = "Cache cleared")
              => (adminKey = "" \/ given = adminKey)
         /\ (usingDatabase /\ (adminKey = "" \/ given = adminKey))
              => (res[p].status = 200 /\ res[p].body = "Cache cleared")

\* with a key configured, one clear was refused with both keys wrong while
\* rows were stored, and another, with the key in the query parameter only,
\* removed them
C20_Witness ==
  /\ env.CACHE_ADMIN_KEY = "k"
  /\ \E p, q \in Procs :
       /\ isClear(p) /\ res[p].status = 401
       /\ req[p].headerKey = "x" /\ req[p].queryKey = "x"
       /\ isClear(q) /\ req[q].headerKey = "" /\ req[q].queryKey = "k"
       /\ loc[q].deleted > 0 /\ asset_cache = {}

(***************************************************************************)
(* C21.  A request that resolves to nothing (a /p/:id no Mapping has, a    *)
(* catch-all path that is reserved, or that has no asset extension and no  *)
(* Mapping) is answered 404 and is terminal: it fetches nothing, reads and *)
(* writes no cache entry, and none of its steps changes url_mappings,      *)
(* tracking or asset_cache.                                                *)
(***************************************************************************)
resolvesToNothing(r) ==
  /\ r # Null
  /\ \/ /\ r.route = "page"
        /\ IF usingDatabase
           THEN \A m \in url_mappings : m.id # r.id
           ELSE r.id \notin DOMAIN fallbackUrlMap
     \/ /\ r.route = "path"
        /\ \/ reserved(r.url)
           \/ ~ usingDatabase
           \/ \A m \in url_mappings : m.path # r.url

C21_NotFoundIsTerminal ==
  /\ [](\A p \in Procs :
          (pc[p] = "done" /\ resolvesToNothing(req[p])) =>
            /\ res[p].status = 404
            /\ loc[p].fetched = 0 /\ ~ loc[p].read /\ ~ loc[p].wrote)
  /\ [][\A p \in Procs :
          ((pc'[p] # pc[p] \/ req'[p] # req[p]) /\ resolvesToNothing(req'[p])) =>
            /\ url_mappings' = url_mappings
            /\ tracking' = tracking
            /\ asset_cache' = asset_cache]_vars

\* with the database in use an unknown id, an unmapped path and a reserved
\* path have been answered 404 while entries and Mappings were stored
C21_Witness ==
  /\ usingDatabase /\ asset_cache # {}
  /\ \E p, q \in Procs :
       /\ pc[p] = "done" /\ req[p].route = "page" /\ req[p].id = 4
       /\ res[p].status = 404
       /\ pc[q] = "done" /\ req[q].route = "path" /\ req[q].url = <<"/", "nope">>
       /\ res[q].status = 404

(***************************************************************************)
(* C22.  Every HTML response to a page request through id P, a MISS or a   *)
(* HIT, has in its head the global snippets in configuration order, then   *)
(* the snippets configured for P, and no snippet configured only for       *)
(* another id.  (The upstream documents here have an empty head.)          *)
(***************************************************************************)
snippetsFor(id) ==
  IF id \in DOMAIN headConfig.pageSpecificSnippets
  THEN headConfig.pageSpecificSnippets[id] ELSE <<>>

RECURSIVE flatten(_)
flatten(ss) == IF ss = <<>> THEN <<>> ELSE Head(ss) \o flatten(Tail(ss))

C22_HeadSnippetsOfThePage ==
  \A p \in Procs :
    (pc[p] = "done" /\ req[p] # Null /\ req[p].route = "page" /\ res[p].status = 200) =>
      flatten(res[p].body.head) = headConfig.globalSnippets \o snippetsFor(req[p].id)


(***************************************************************************)
(* C23.  With auto-discovery on, anchors of one rendered page whose hrefs  *)
(* differ only in the query string or the fragment are one discovered URL: *)
(* the render leaves a Mapping for the stripped URL, and every such        *)
(* anchor, the ones that carry a query or a fragment included, is          *)
(* rewritten to the same /p/<id> of such a Mapping.                        *)
(***************************************************************************)
discovered(p) ==
  /\ pc[p] = "done" /\ req[p] # Null /\ req[p].route = "page_earlier"
  /\ res[p].status = 200 /\ loc[p].html # Null

C23_OneUrlPerStrippedLink ==
  \A p \in Procs :
    discovered(p) =>
      LET html == loc[p].html.elems
          out == res[p].body.elems
      IN \A i, j \in 1..Len(html) :
           ( /\ isNotionLink(html[i]) /\ isNotionLink(html[j])
             /\ cleanUrl(html[i].url) = cleanUrl(html[j].url) ) =>
               /\ out[i] = out[j]
               /\ \E m \in url_mappings :
                    /\ m.notion_url = cleanUrl(html[i].url)
                    /\ out[i] = element("a", <<"/", "p", "/", m.id>>)


(***************************************************************************)
(* C24.  Auto-discovery is look-up-or-create: when the link a render is    *)
(* about to register already has a Mapping with that notion_url, the       *)
(* render adds no Mapping for it, goes on without createMapping, and every *)
(* anchor of the page to that link has href /p/<id of such a Mapping>      *)
(* afterwards; so a render whose links are all registered leaves the set   *)
(* of Mappings as it was.                                                  *)
(***************************************************************************)
lookedUp(p) ==
  /\ pc[p] = "discover_list"
  /\ loc'[p] # loc[p] \/ pc'[p] # pc[p]

registeredLink(p) ==
  \E m \in url_mappings : m.notion_url = Head(loc[p].links)

C24_LookUpOrCreateStep ==
  \A p \in Procs :
    (lookedUp(p) /\ registeredLink(p)) =>
      /\ url_mappings' = url_mappings
      /\ pc'[p] # "discover_create"
      /\ \A i \in 1..Len(loc[p].html.elems) :
           ( /\ isNotionLink(loc[p].html.elems[i])
             /\ cleanUrl(loc[p].html.elems[i].url) = Head(loc[p].links) ) =>
               \E m \in url_mappings :
                 /\ m.notion_url = Head(loc[p].links)
                 /\ loc'[p].content.elems[i] = element("a", <<"/", "p", "/", m.id>>)

C24_LookUpOrCreate == [][C24_LookUpOrCreateStep]_vars



(***************************************************************************)
(* C25.  Under every interleaving of concurrent renders with               *)
(* auto-discovery on, each reading getAllMappings and calling              *)
(* createMapping when it found no row for the link, url_mappings holds at  *)
(* most one row for each source URL that the pages link to.                *)
(***************************************************************************)
discoveredUrls ==
  { cleanUrl(d.elems[i].url) :
      <<d, i>> \in { x \in LinkDocs \X (1..2) :
                       x[2] <= Len(x[1].elems) /\ isNotionLink(x[1].elems[x[2]]) } }

C25_OneMappingPerDiscoveredUrl ==
  \A u \in discoveredUrls :
    Cardinality({ m \in url_mappings : m.notion_url = u }) <= 1


(***************************************************************************)
(* C26.  On an HTML miss the rewritten page is sent before the cache write *)
(* is issued: while the write of a page request is still to come its       *)
(* response is already 200 with the rewritten page, and the step that ends *)
(* the write, by storing the entry or by failing, leaves status and body   *)
(* of that response as they were.                                          *)
(***************************************************************************)
writePending(p) ==
  pc[p] = "put" /\ req[p] # Null /\ req[p].route \in PageRoutes

C26_Sent ==
  \A p \in Procs :
    writePending(p) =>
      /\ res[p] # Null
      /\ res[p].status = 200
      /\ res[p].body = loc[p].content
      /\ ~ loc[p].wrote

C26_WriteStep ==
  \A p \in Procs :
    (writePending(p) /\ pc'[p] # "put") =>
      /\ res'[p].status = res[p].status
      /\ res'[p].body = res[p].body

C26_SendBeforeWrite == [] C26_Sent /\ [][C26_WriteStep]_vars

\* a page was sent, then its cache write failed
C26_Witness ==
  \E p \in Procs :
    /\ pc[p] = "done" /\ req[p] # Null /\ req[p].route \in PageRoutes
    /\ "put" \in loc[p].threw /\ ~ loc[p].wrote
    /\ res[p].status = 200 /\ res[p].xcache = "MISS"
    /\ res[p].body = loc[p].content


(***************************************************************************)
(* C27.  Only allow-listed headers are forwarded or persisted: in every    *)
(* reachable state the headers of every row of asset_cache and the headers *)
(* a response carries over from the upstream or from the cache are among   *)
(* cache-control, etag, last-modified, expires, vary and the three         *)
(* access-control-allow-* names.                                           *)
(***************************************************************************)
allowList ==
  { "cache-control", "etag", "last-modified", "expires", "vary",
    "access-control-allow-origin", "access-control-allow-methods",
    "access-control-allow-headers" }

C27_OnlyAllowListedHeaders ==
  /\ \A r \in asset_cache : r.headers \subseteq allowList
  /\ \A p \in Procs : res[p] # Null => res[p].headers \subseteq allowList


(***************************************************************************)
(* C28.  On the asset routes, when the upstream declares text/html or      *)
(* text/plain, with or without a parameter such as a charset, for a path   *)
(* whose extension is in the table of getMimeType, the content type served *)
(* and the content type handed to the cache are the table's type for the   *)
(* extension; and the served and the cached content type are equal.        *)
(***************************************************************************)
\* the media type of a Content-Type value: the part before the parameters
mediaType(contentType) ==
  IF contentType \in {"text/html", "text/html; charset=utf-8"} THEN "text/html"
  ELSE IF contentType \in {"text/plain", "text/plain; charset=utf-8"} THEN "text/plain"
  ELSE contentType

servedFromUpstream(p) ==
  /\ pc[p] = "done" /\ req[p] # Null
  /\ req[p].route \in {"_assets", "assets", "proxy_asset"}
  /\ res[p].status = 200 /\ res[p].xcache = "MISS"

requestedPath(p) ==
  IF req[p].route = "proxy_asset" THEN loc[p].assetUrl ELSE req[p].url

C28_ContentTypeCorrected ==
  \A p \in Procs :
    servedFromUpstream(p) =>
      /\ res[p].contentType = loc[p].contentType
      /\ ( /\ mediaType(loc[p].declared) \in {"text/html", "text/plain"}
           /\ getMimeType(requestedPath(p)) # "null" ) =>
             res[p].contentType = getMimeType(requestedPath(p))


(***************************************************************************)
(* C29.  A HIT is observationally equal to the MISS that populated it: on  *)
(* every cacheable route the response served from a Cache Entry has the    *)
(* status, the payload, the Content-Type and the headers, X-Cache aside,   *)
(* of the response that the request that wrote the entry sent.             *)
(***************************************************************************)
servedHit(p) ==
  /\ pc[p] = "done" /\ req[p] # Null /\ req[p].route \in CacheableRoutes
  /\ loc[p].cached # Null /\ loc[p].lastPutAtRead # Null
  /\ res[p] # Null /\ res[p].xcache = "HIT"

\* q wrote what p read: the same url, and the arguments of the write p saw
populated(q, p) ==
  /\ pc[q] = "done" /\ req[q] # Null /\ req[q].route = req[p].route
  /\ loc[q].wrote /\ loc[q].assetUrl = loc[p].assetUrl
  /\ res[q] # Null /\ res[q].xcache = "MISS"
  /\ loc[q].contentType = loc[p].lastPutAtRead.contentType
  /\ loc[q].content = loc[p].lastPutAtRead.content
  /\ loc[q].headers = loc[p].lastPutAtRead.headers

C29_HitEqualsMiss ==
  \A p, q \in Procs :
    (servedHit(p) /\ populated(q, p)) =>
      /\ res[p].status = res[q].status
      /\ res[p].body = res[q].body
      /\ res[p].contentType = res[q].contentType
      /\ res[p].headers = res[q].headers


(***************************************************************************)
(* C30.  GET /cache/stats reports the live entries only: totalCached is    *)
(* the number of rows of asset_cache whose expires_at is later than now,   *)
(* totalHits the sum of their hit counts and totalSizeBytes the sum of the *)
(* lengths of their payloads; a row that has expired and is still in the   *)
(* table adds to none of the three.                                        *)
(***************************************************************************)
statsAnswered(p) ==
  /\ req'[p] # req[p] /\ req'[p].route = "cache_stats"
  /\ res'[p].status = 200 /\ usingDatabase

RECURSIVE sumOfHits(_)
sumOfHits(rows) ==
  IF rows = {} THEN 0
  ELSE LET r == CHOOSE x \in rows : TRUE IN r.hit_count + sumOfHits(rows \ {r})

RECURSIVE sumOfLengths(_)
sumOfLengths(rows) ==
  IF rows = {} THEN 0
  ELSE LET r == CHOOSE x \in rows : TRUE
       IN (IF r.content = "b1" THEN 1 ELSE 2) + sumOfLengths(rows \ {r})

C30_StatsStep ==
  \A p \in Procs :
    statsAnswered(p) =>
      LET live == { r \in asset_cache : now < r.expires_at }
      IN /\ res'[p].totalCached = Cardinality(live)
         /\ res'[p].totalHits = sumOfHits(live)
         /\ res'[p].totalSizeBytes = sumOfLengths(live)

C30_StatsOfLiveEntries == [][C30_StatsStep]_vars

\* statistics taken while an entry with hits had expired and was still stored,
\* next to a live one
C30_Witness ==
  \E p \in Procs :
    /\ pc[p] = "done" /\ req[p] # Null /\ req[p].route = "cache_stats"
    /\ res[p].status = 200 /\ res[p].body = "stats"
    /\ res[p].totalCached = 1 /\ res[p].totalSizeBytes = 1
    /\ \E r \in asset_cache : r.expires_at <= now /\ r.content = "b2"
    /\ \E r \in asset_cache : r.expires_at > now /\ r.content = "b1"


(***************************************************************************)
(* C31.  hit_count of a row of asset_cache counts the calls of             *)
(* getCachedAsset that returned that entry since the row was inserted: a   *)
(* row starts at 0, the call that returns the entry of the row adds        *)
(* exactly one, whatever other calls run at the same time, and no other    *)
(* step changes the count of a row that stays in the table: not a miss,    *)
(* not an overwrite by setCachedAsset, and not a call that returns an      *)
(* entry whose row has since been deleted.                                 *)
(***************************************************************************)
rowOf(cache, url) == { r \in cache : r.url = url }

\* the step in which the getCachedAsset of p returns the entry it selected
returnsEntry(p) ==
  /\ pc[p] = "get_update" /\ pc'[p] # "get_update"
  /\ "get" \notin loc'[p].threw

C31_HitCountStep ==
  \A r \in asset_cache, r2 \in asset_cache' :
    r.url = r2.url =>
      r2.hit_count = r.hit_count
        + Cardinality({ p \in Procs :
                          /\ returnsEntry(p) /\ loc[p].assetUrl = r.url
                          /\ ~ loc[p].evicted })

C31_NewRowStep ==
  \A r2 \in asset_cache' :
    rowOf(asset_cache, r2.url) = {} => r2.hit_count = 0

C31_HitCountCountsReturns == [][C31_HitCountStep /\ C31_NewRowStep]_vars


(***************************************************************************)
(* C32.  Every request gets exactly one response: a handler that has       *)
(* finished has sent a response, and once a request has its response no    *)
(* later step of its handler sends another, on a hit, a miss, an upstream  *)
(* failure, a transport error or a store error, the error of the cache     *)
(* write that follows the response included.                               *)
(***************************************************************************)
C32_Answered ==
  \A p \in Procs : pc[p] = "done" => res[p] # Null

C32_NoSecondStep ==
  \A p \in Procs :
    (res[p] # Null /\ started' = started) =>
      /\ res'[p] # Null
      /\ res'[p].status = res[p].status
      /\ res'[p].xcache = res[p].xcache
      /\ res'[p].contentType = res[p].contentType
      /\ res'[p].headers = res[p].headers
      /\ res'[p].body = res[p].body

initialized == boot.pc \in {"ready", "failed"}

C33_NoStoreBeforeInit ==
  \A p \in Procs : pc[p] \in StorePcs => initialized

C33_ModeFixedStep ==
  started > 0 => usingDatabase' = usingDatabase

C33_ModeChosenOnce == [] C33_NoStoreBeforeInit /\ [][C33_ModeFixedStep]_vars


(***************************************************************************)
(* C34.  Every URL a successful POST /register returns resolves to the     *)
(* registered source URL: in the state the response leaves, GET on the     *)
(* returned legacyUrl /p/<id> and, when the reply has one, GET on the      *)
(* returned transparentUrl resolve to the notionUrl of the registration,   *)
(* with the database and with the in-memory fallback.                      *)
(***************************************************************************)
\* GET /p/:id: the urls getMapping(id), or fallbackUrlMap.get(id), yields
resolvesById(db, rows, fallback, id) ==
  IF db THEN { r.notion_url : r \in selectById(rows, id) }
  ELSE IF id \in DOMAIN fallback /\ truthy(fallback[id]) THEN { fallback[id] }
  ELSE {}

\* GET / and GET /*: the urls the path is proxied from
resolvesByPath(db, rows, rootPage, path) ==
  IF path = Slash
  THEN IF db /\ \E r \in rows : r.is_root
       THEN { r.notion_url : r \in { x \in rows : x.is_root } }
       ELSE IF truthy(rootPage) THEN { rootPage } ELSE {}
  ELSE IF reserved(path) \/ getMimeType(path) # "null" THEN {}
  ELSE IF db THEN { r.notion_url : r \in { x \in rows : x.path = path } }
  ELSE {}

registeredNow(p) ==
  /\ stepOf(p) /\ pc'[p] = "done"
  /\ req'[p] # Null /\ req'[p].route = "register"
  /\ res'[p] # Null /\ res'[p].status = 200

C34_ReturnedUrlsResolveStep ==
  \A p \in Procs :
    registeredNow(p) =>
      /\ resolvesById(usingDatabase', url_mappings', fallbackUrlMap', res'[p].id)
           = { req'[p].body.notionUrl }
      /\ res'[p].transparentUrl # <<>> =>
           resolvesByPath(usingDatabase', url_mappings', env'.ROOT_NOTION_PAGE,
                          res'[p].transparentUrl)
             = { req'[p].body.notionUrl }

C34_ReturnedUrlsResolve == [][C34_ReturnedUrlsResolveStep]_vars

(***************************************************************************)
(* C35: runMigrations applies every pending migration exactly once, in     *)
(* ascending file-name order, records each applied id in the migrations    *)
(* table, skips the ids already recorded and returns the number it         *)
(* applied; a call that finds no pending migration applies nothing and     *)
(* returns 0.  When the call has returned, the statements of every         *)
(* migration that was pending are in the schema, every migration id is in  *)
(* the table and the result is the number of the migrations that were      *)
(* pending; a migration is begun only if its id was not recorded, after    *)
(* as many runs as there are pending files before it.                      *)
(***************************************************************************)
ranMigrations == boot.cmd = "up" /\ boot.pc = "returned"

C35_Returned ==
  ranMigrations =>
    /\ boot.result = Cardinality(AllMigrations \ boot.applied)
    /\ tokens(AllMigrations \ boot.applied) \subseteq boot.schema
    /\ AllMigrations \subseteq migrations

C35_BeginStep ==
  (boot.pc = "begin" /\ boot'.pc = "up1") =>
    /\ migrationId \notin boot.applied
    /\ boot.migrationsRun = Cardinality(pending(1, boot.applied) \cap 1..(boot.i - 1))

C35_AppliesPendingInOrder == [] C35_Returned /\ [][C35_BeginStep]_vars

(***************************************************************************)
(* C36: a migration is applied atomically.  When its up or the insert of   *)
(* its id failed and runMigrations has thrown, the error names that        *)
(* migration, no statement of its up is in the schema that was not there   *)
(* before the migration began, and its id is not in the migrations table.  *)
(* No later migration is run: the call ends with the ROLLBACK.             *)
(***************************************************************************)
migrationFailed ==
  /\ boot.cmd = "up"
  /\ boot.pc = "threw"
  /\ boot.i > 0

C36_NothingRemains ==
  migrationFailed =>
    /\ boot.result = migrationId
    /\ boot.schema \cap tokens({migrationId}) \subseteq boot.before.schema
    /\ migrationId \notin migrations

C36_NoLaterStep ==
  boot.pc = "rollback" => boot'.pc \in {"rollback", "threw"}

C36_AppliedAtomically == [] C36_NothingRemains /\ [][C36_NoLaterStep]_vars

(***************************************************************************)
(* C37: rollbackMigration without an id rolls back the most recently       *)
(* applied migration.  Its first statement finds the migration with the    *)
(* latest applied_at, or, when no migration is applied, the call changes   *)
(* nothing and returns null; when the call has returned an id, it is the   *)
(* id of that migration, no statement of its up is in the schema, the id   *)
(* is not in the migrations table and getMigrationStatus lists it as       *)
(* pending.                                                                *)
(***************************************************************************)
mostRecent ==
  CHOOSE id \in migrations : \A other \in migrations : boot.at[other] <= boot.at[id]

C37_LastStep ==
  (boot.pc = "last" /\ boot'.pc # "last") =>
    IF migrations = {}
    THEN /\ boot'.pc = "returned"
         /\ boot'.result = "null"
         /\ migrations' = migrations
         /\ boot'.schema = boot.schema
    ELSE /\ boot'.pc = "rb_begin"
         /\ migrationFiles[boot'.i] = mostRecent

rolledBack ==
  /\ boot.cmd = "rollback"
  /\ boot.pc = "returned"
  /\ boot.i > 0

C37_Returned ==
  rolledBack =>
    /\ boot.result = migrationId
    /\ boot.schema \cap tokens({migrationId}) = {}
    /\ migrationId \notin migrations
    /\ getMigrationStatus.initialized
    /\ migrationId \in getMigrationStatus.pending

C37_RollsBackTheLast == [] C37_Returned /\ [][C37_LastStep]_vars

====
